---- MODULE Spec2Model ----
(***************************************************************************)
(* The authoritative session server of Neon Plinko Royale: the roster and  *)
(* phase state machine, the bot-drop timers and the scoring-timeout timers *)
(* of the socket server (startServer).                                     *)
(*                                                                         *)
(* One action per socket handler or timer callback.  A handler runs to     *)
(* completion on the Node event loop, so each is one atomic step.  The     *)
(* messages a handler emits are recorded, in order, in `out`.              *)
(***************************************************************************)
EXTENDS Integers, Sequences, FiniteSets, TLC

\* ---------------------------------------------------------------- bounds
\* Roster capacity.  The server's literal is 50; the model scales it down.
MaxPlayers == 2
\* Number of connections (socket ids) opened during a run.
MaxSockets == 2
\* Number of bot identifiers generated during a run.
MaxBotIds == 1

\* Longest roster of a snapshot given to the delta engine.
MaxRoster == 2
\* Largest number of entries of a delta that is not computed but given.
MaxEntries == 2

\* Iterations of the add_bot loop that use a generated name (50 in the code).
AttemptBudget == 2

\* ------------------------------------------------------------ input sets
\* Display names a client may type.
HumanNames == {"al", "AL", "neon-1"}
\* Names generateSynthwaveBotName can return (a small stand-in for the
\* prefix/suffix product; "Neon-1" is format 2 with number 1).
GenNames == {"Neon-1"}
\* A colour string is kept as the sequence of its characters.
\* COLORS.ballCheater
CheaterColor == << "#", "f", "f", "f", "f", "0", "0" >>
\* `hsl(${Math.random() * 360}, 100%, 50%)` for two values of the random number
HslColor ==
    << "h", "s", "l", "(", "1", "2", "0", ".", "5", ",", " ", "1", "0", "0", "%", ",", " ",
       "5", "0", "%", ")" >>
HslColorOfBot ==
    << "h", "s", "l", "(", "7", ".", "2", "5", ",", " ", "1", "0", "0", "%", ",", " ",
       "5", "0", "%", ")" >>
\* '#ffffff'
White == << "#", "f", "f", "f", "f", "f", "f" >>
\* Points a client may report (bucket values).
Points == {0, 50}

\* --------------------------------------------------------------- helpers
\* score: number | null.  null is the empty tuple, n is <<n>>.
Null == << >>
Num(n) == << n >>

LOBBY == "LOBBY"
PLAYING == "PLAYING"
GAME_OVER == "GAME_OVER"

\* socket.id of the n-th connection; bot-<time>-<random> of the n-th bot.
SocketId(n) == << "s", n >>
BotId(n) == << "bot", n >>
SocketIds == { SocketId(n) : n \in 1..MaxSockets }
BotIds == { BotId(n) : n \in 1..MaxBotIds }
AllIds == SocketIds \cup BotIds

\* `Neon-${botCounter}`
FallbackName(k) == "Neon-" \o ToString(k)
\* Largest value botCounter can take: each add_bot raises it by at most one
\* more than the roster size.
MaxCounter == 1 + MaxBotIds * (MaxPlayers + 1)

\* String.prototype.toLowerCase on the names of the model.
toLowerCase(n) ==
    IF n = "AL" THEN "al"
    ELSE IF \E k \in 1..MaxCounter : n = FallbackName(k)
         THEN "neon-" \o ToString(CHOOSE k \in 1..MaxCounter : n = FallbackName(k))
         ELSE n

\* Array.prototype.findIndex, given the set of indices that pass the test:
\* the first of them; 0 stands for JavaScript's -1.
FindIndex(hits) ==
    IF hits = {} THEN 0 ELSE CHOOSE i \in hits : \A j \in hits : i <= j

\* players.splice(i, 1)
Splice(ps, i) == [ j \in 1..(Len(ps) - 1) |-> IF j < i THEN ps[j] ELSE ps[j + 1] ]

\* The name check without toLowerCase(): p.name === name.
NameTakenCaseSensitive(ps, name) ==
    \E i \in 1..Len(ps) : ps[i].name = name

\* players.some(p => p.name.toLowerCase() === name.toLowerCase())
NameTaken(ps, name) ==
    \E i \in 1..Len(ps) : toLowerCase(ps[i].name) = toLowerCase(name)

\* players.findIndex(p => p.id === id)
IndexOfId(ps, id) == FindIndex({ i \in 1..Len(ps) : ps[i].id = id })

\* The limit check with `>` for `>=`.
AtLimitOffByOne(ps) == Len(ps) > MaxPlayers

\* players.length >= 50, with the capacity of the model
AtLimit(ps) == Len(ps) >= MaxPlayers

\* ----------------------------------------------------------------- state
VARIABLES
    players,            \* let players = []
    gamePhase,          \* let gamePhase = 'LOBBY'
    droppedBalls,       \* const droppedBalls = new Set()
    botCounter,         \* let botCounter = 1
    botDropTimers,      \* const botDropTimers = new Map(): its keys
    liveBotDropTimers,  \* per bot id, the number of setTimeout drop timers not yet fired or cleared
    scoreTimeoutTimers, \* const scoreTimeoutTimers = new Map(): its keys
    liveScoreTimers,    \* per id, the number of setTimeout scoring timers not yet fired or cleared
    connected,          \* socket ids of open connections
    nextSocket,         \* number of the next connection
    nextBot,            \* number of the next bot identifier
    out,                \* messages emitted by the last handler, in order
    \* The delta engine and the wire codec (stateDiff, serializers) are
    \* libraries the session server does not call; their variables hold the
    \* arguments and results of one use of them.
    previousState,      \* previousState: GameState, the follower's snapshot
    currentState,       \* currentState: GameState, the owner's snapshot
    delta,              \* the GameStateDelta computed or received
    state,              \* what applyStateDelta last returned (previousState before that)
    wire,               \* the decoded protobuf message of the last encode
    pc,                 \* how far the use of the library, or the add_bot loop, has got
    \* The do-while loop of add_bot, run one iteration at a time.
    attempts,           \* let attempts = 0 (counted up to one past the budget)
    botName             \* let botName

vars == << players, gamePhase, droppedBalls, botCounter, botDropTimers,
           liveBotDropTimers, scoreTimeoutTimers, liveScoreTimers, connected, nextSocket, nextBot, out,
           previousState, currentState, delta, state, wire, pc, attempts, botName >>

loopVars == << attempts, botName >>

\* add_bot is not running.
LoopIdle == attempts = 0 /\ botName = ""

engineVars == << previousState, currentState, delta, state, wire, pc, attempts, botName >>

serverVars == << players, gamePhase, droppedBalls, botCounter, botDropTimers,
                 liveBotDropTimers, scoreTimeoutTimers, liveScoreTimers, connected,
                 nextSocket, nextBot, out >>

\* ------------------------------------------------------------- messages
\* io.emit('state_update', { players, phase: gamePhase })
StateUpdate(ps, ph) == [ type |-> "state_update", to |-> "all", players |-> ps, phase |-> ph ]
\* socket.emit('state_update', ...) on connection
StateUpdateTo(s, ps, ph) == [ type |-> "state_update", to |-> s, players |-> ps, phase |-> ph ]
\* socket.emit('error_message', text)
ErrorMessage(s, text) == [ type |-> "error_message", to |-> s, text |-> text ]
\* io.emit('spawn_ball', { x, playerId })
SpawnBall(id) == [ type |-> "spawn_ball", to |-> "all", playerId |-> id ]
\* io.emit('ball_removed', { ballId })
BallRemoved == [ type |-> "ball_removed", to |-> "all" ]

ServerInit ==
    /\ players = << >>
    /\ gamePhase = LOBBY
    /\ droppedBalls = {}
    /\ botCounter = 1
    /\ botDropTimers = {}
    /\ liveBotDropTimers = [ b \in BotIds |-> 0 ]
    /\ scoreTimeoutTimers = {}
    /\ liveScoreTimers = [ id \in AllIds |-> 0 ]
    /\ connected = {}
    /\ nextSocket = 1
    /\ nextBot = 1
    /\ out = << >>

\* The libraries are not in use.
EngineIdle ==
    /\ previousState = [ players |-> << >>, phase |-> LOBBY ]
    /\ currentState = [ players |-> << >>, phase |-> LOBBY ]
    /\ delta = [ players |-> << >>, phase |-> << >>, fullState |-> FALSE ]
    /\ state = [ players |-> << >>, phase |-> LOBBY ]
    /\ wire = << >>
    /\ pc = "idle"
    /\ LoopIdle

Init == ServerInit /\ EngineIdle

\* io.on('connection'): a new socket with a fresh id receives the state.
Connect ==
    /\ nextSocket <= MaxSockets
    /\ connected' = connected \cup { SocketId(nextSocket) }
    /\ nextSocket' = nextSocket + 1
    /\ out' = << StateUpdateTo(SocketId(nextSocket), players, gamePhase) >>
    /\ UNCHANGED << players, gamePhase, droppedBalls, botCounter, botDropTimers,
                    liveBotDropTimers, scoreTimeoutTimers, liveScoreTimers, nextBot >>
    /\ UNCHANGED engineVars

\* ------------------------------------------------- roster helper functions
\* const activePlayers = players.filter(p => !p.isSpectator)
activePlayers(ps) == SelectSeq(ps, LAMBDA p : ~p.isSpectator)

\* checkGameOver() with `activePlayers.length > 1`: a lone competitor that
\* finishes does not end the round.
checkGameOverOffByOne(ps, ph) ==
    IF /\ ph = PLAYING
       /\ Len(activePlayers(ps)) > 1
       /\ \A i \in 1..Len(activePlayers(ps)) : activePlayers(ps)[i].finished
    THEN [ phase |-> GAME_OVER, out |-> << StateUpdate(ps, GAME_OVER) >> ]
    ELSE [ phase |-> ph, out |-> << >> ]

\* checkGameOver() without its `gamePhase !== 'PLAYING'` early return.
checkGameOverAnyPhase(ps, ph) ==
    IF /\ Len(activePlayers(ps)) > 0
       /\ \A i \in 1..Len(activePlayers(ps)) : activePlayers(ps)[i].finished
    THEN [ phase |-> GAME_OVER, out |-> << StateUpdate(ps, GAME_OVER) >> ]
    ELSE [ phase |-> ph, out |-> << >> ]

\* checkGameOver(): the phase it leaves and the broadcast it makes.
checkGameOver(ps, ph) ==
    IF /\ ph = PLAYING
       /\ Len(activePlayers(ps)) > 0
       /\ \A i \in 1..Len(activePlayers(ps)) : activePlayers(ps)[i].finished
    THEN [ phase |-> GAME_OVER, out |-> << StateUpdate(ps, GAME_OVER) >> ]
    ELSE [ phase |-> ph, out |-> << >> ]

\* players[i].score = v; players[i].finished = true
Finish(ps, i, v) == [ ps EXCEPT ![i].score = v, ![i].finished = TRUE ]

\* const t = map.get(id); if (t) { clearTimeout(t); map.delete(id) }
ClearLive(live, keys, id) ==
    IF id \in keys THEN [ live EXCEPT ![id] = live[id] - 1 ] ELSE live

\* map.forEach(timer => clearTimeout(timer)); map.clear()
ClearAllLive(live, keys) ==
    [ id \in DOMAIN live |-> IF id \in keys THEN live[id] - 1 ELSE live[id] ]

\* scheduleBotDrops() without its `botDropTimers.has(bot.id)` skip.
botsToScheduleNoTimerCheck(ps, dropped, timers) ==
    { ps[i].id : i \in { j \in 1..Len(ps) :
                      /\ ps[j].isBot /\ ~ps[j].isSpectator /\ ~ps[j].finished
                      /\ ps[j].id \notin dropped } }

\* scheduleBotDrops() without its `p.isBot` filter: every unfinished
\* competitor gets a drop timer.
botsToScheduleAnyPlayer(ps, dropped, timers) ==
    { ps[i].id : i \in { j \in 1..Len(ps) :
                      /\ ~ps[j].isSpectator /\ ~ps[j].finished
                      /\ ps[j].id \notin timers
                      /\ ps[j].id \notin dropped } }

\* scheduleBotDrops(): the bots it calls setTimeout for.  Every bot that is
\* no spectator, is not finished, has no drop timer and has not dropped.
botsToSchedule(ps, dropped, timers) ==
    { ps[i].id : i \in { j \in 1..Len(ps) :
                      /\ ps[j].isBot /\ ~ps[j].isSpectator /\ ~ps[j].finished
                      /\ ps[j].id \notin timers
                      /\ ps[j].id \notin dropped } }

\* scheduleBotDrops(): the keys of botDropTimers after the call.
scheduleBotDrops(ps, dropped, timers) ==
    timers \cup botsToSchedule(ps, dropped, timers)

\* setTimeout called once for each id of the set.
AddLive(live, ids) ==
    [ id \in DOMAIN live |-> IF id \in ids THEN live[id] + 1 ELSE live[id] ]

\* A join payload that leaves score null and finished false for a spectator.
NewPlayerUnfinished(name, isSpectator) ==
    [ id |-> "pending", name |-> name, score |-> Null,
      isBot |-> FALSE, isSpectator |-> isSpectator, finished |-> FALSE ]

\* The payload handleAddPlayer sends with join_game.
NewPlayer(name, isSpectator) ==
    [ id |-> "pending", name |-> name,
      score |-> IF isSpectator THEN Num(0) ELSE Null,
      isBot |-> FALSE, isSpectator |-> isSpectator, finished |-> isSpectator ]

\* ------------------------------------------------------------- join_game
\* socket.on('join_game'): at the limit a bot is removed first (or the join
\* is rejected when there is none), then the name is checked, then the
\* player is pushed with id = socket.id.
JoinGame(s, name, isSpectator) ==
    LET full == AtLimit(players)
        botIndex == FindIndex({ i \in 1..Len(players) : players[i].isBot })
        removedBot == players[botIndex]
        evict == full /\ botIndex # 0
        ps1 == IF evict THEN Splice(players, botIndex) ELSE players
        bdt1 == IF evict THEN botDropTimers \ { removedBot.id } ELSE botDropTimers
        liveBot1 == IF evict THEN ClearLive(liveBotDropTimers, botDropTimers, removedBot.id)
                    ELSE liveBotDropTimers
        live1 == IF evict THEN ClearLive(liveScoreTimers, scoreTimeoutTimers, removedBot.id)
                 ELSE liveScoreTimers
        stt1 == IF evict THEN scoreTimeoutTimers \ { removedBot.id } ELSE scoreTimeoutTimers
        player == [ NewPlayer(name, isSpectator) EXCEPT !.id = s ]
    IN
    /\ s \in connected
    /\ IF full /\ botIndex = 0
       THEN /\ out' = << ErrorMessage(s, "Max player limit has been reached") >>
            /\ UNCHANGED << players, botDropTimers, liveBotDropTimers,
                            scoreTimeoutTimers, liveScoreTimers >>
       ELSE /\ botDropTimers' = bdt1
            /\ liveBotDropTimers' = liveBot1
            /\ scoreTimeoutTimers' = stt1
            /\ liveScoreTimers' = live1
            /\ IF NameTaken(ps1, name)
               THEN /\ players' = ps1
                    /\ out' = << ErrorMessage(s, "Name already taken") >>
               ELSE /\ players' = Append(ps1, player)
                    /\ out' = << StateUpdate(players', gamePhase) >>
    /\ UNCHANGED << gamePhase, droppedBalls, botCounter, connected, nextSocket, nextBot >>
    /\ UNCHANGED engineVars

\* --------------------------------------------------------------- add_bot
\* The name the do-while loop ends with and the botCounter it leaves.
\* Within the first 50 attempts the loop ends with a generated name that is
\* free; from attempt 51 on botName is `Neon-${botCounter}` and botCounter is
\* incremented, until that name is free.  Attempt 51 is reached only when 50
\* generated names in a row were taken.
FallbackCounter(ps, k) ==
    CHOOSE n \in k..MaxCounter :
        /\ ~NameTaken(ps, FallbackName(n))
        /\ \A m \in k..(n - 1) : NameTaken(ps, FallbackName(m))

BotNameChoices(ps, counter) ==
    { [ name |-> g, botCounter |-> counter ] : g \in { n \in GenNames : ~NameTaken(ps, n) } }
    \cup
    IF \E g \in GenNames : NameTaken(ps, g)
    THEN { [ name |-> FallbackName(FallbackCounter(ps, counter)),
             botCounter |-> FallbackCounter(ps, counter) + 1 ] }
    ELSE {}

NewBot(id, name) ==
    [ id |-> id, name |-> name, score |-> Null,
      isBot |-> TRUE, isSpectator |-> FALSE, finished |-> FALSE ]

AddBotRejected(s) ==
    /\ s \in connected
    /\ AtLimit(players)
    /\ out' = << ErrorMessage(s, "Max player limit has been reached") >>
    /\ UNCHANGED << players, gamePhase, droppedBalls, botCounter, botDropTimers,
                    liveBotDropTimers, scoreTimeoutTimers, liveScoreTimers, connected,
                    nextSocket, nextBot >>
    /\ UNCHANGED engineVars

AddBotAccepted(s) ==
    /\ s \in connected
    /\ ~AtLimit(players)
    /\ nextBot <= MaxBotIds
    /\ \E c \in BotNameChoices(players, botCounter) :
          /\ players' = Append(players, NewBot(BotId(nextBot), c.name))
          /\ botCounter' = c.botCounter
    /\ nextBot' = nextBot + 1
    /\ out' = << StateUpdate(players', gamePhase) >>
    /\ UNCHANGED << gamePhase, droppedBalls, botDropTimers, liveBotDropTimers,
                    scoreTimeoutTimers, liveScoreTimers, connected, nextSocket >>
    /\ UNCHANGED engineVars

AddBot(s) == AddBotRejected(s) \/ AddBotAccepted(s)

\* ------------------------------------------------------------ start_game
\* start_game without its `gamePhase === 'LOBBY'` test.
StartGameAnyPhase(s) ==
    /\ s \in connected
    /\ gamePhase' = PLAYING
    /\ players' = [ i \in 1..Len(players) |->
                      [ players[i] EXCEPT !.finished = players[i].isSpectator ] ]
    /\ droppedBalls' = {}
    /\ botDropTimers' = scheduleBotDrops(players', {}, {})
    /\ liveBotDropTimers' = AddLive(ClearAllLive(liveBotDropTimers, botDropTimers),
                                    botsToSchedule(players', {}, {}))
    /\ out' = << StateUpdate(players', PLAYING) >>
    /\ UNCHANGED << botCounter, scoreTimeoutTimers, liveScoreTimers, connected,
                    nextSocket, nextBot >>
    /\ UNCHANGED engineVars

\* Only from LOBBY; any other phase is ignored.
StartGame(s) ==
    /\ s \in connected
    /\ IF gamePhase = LOBBY
       THEN /\ gamePhase' = PLAYING
            /\ players' = [ i \in 1..Len(players) |->
                              [ players[i] EXCEPT !.finished = players[i].isSpectator ] ]
            /\ droppedBalls' = {}
            /\ botDropTimers' = scheduleBotDrops(players', {}, {})
            /\ liveBotDropTimers' = AddLive(ClearAllLive(liveBotDropTimers, botDropTimers),
                                            botsToSchedule(players', {}, {}))
            /\ out' = << StateUpdate(players', PLAYING) >>
       ELSE /\ out' = << >>
            /\ UNCHANGED << players, gamePhase, droppedBalls, botDropTimers,
                            liveBotDropTimers >>
    /\ UNCHANGED << botCounter, scoreTimeoutTimers, liveScoreTimers, connected,
                    nextSocket, nextBot >>
    /\ UNCHANGED engineVars

\* ----------------------------------------------------------- reset_lobby
\* reset_lobby without its scoreTimeoutTimers.forEach(clearTimeout) / clear().
ResetLobbyKeepScoreTimers(s) ==
    /\ s \in connected
    /\ liveBotDropTimers' = ClearAllLive(liveBotDropTimers, botDropTimers)
    /\ botDropTimers' = {}
    /\ players' = << >>
    /\ gamePhase' = LOBBY
    /\ droppedBalls' = {}
    /\ out' = << StateUpdate(<< >>, LOBBY) >>
    /\ UNCHANGED << botCounter, scoreTimeoutTimers, liveScoreTimers, connected,
                    nextSocket, nextBot >>
    /\ UNCHANGED engineVars

\* Accepted in every phase.
ResetLobby(s) ==
    /\ s \in connected
    /\ liveBotDropTimers' = ClearAllLive(liveBotDropTimers, botDropTimers)
    /\ botDropTimers' = {}
    /\ liveScoreTimers' = ClearAllLive(liveScoreTimers, scoreTimeoutTimers)
    /\ scoreTimeoutTimers' = {}
    /\ players' = << >>
    /\ gamePhase' = LOBBY
    /\ droppedBalls' = {}
    /\ out' = << StateUpdate(<< >>, LOBBY) >>
    /\ UNCHANGED << botCounter, connected, nextSocket, nextBot >>
    /\ UNCHANGED engineVars

\* ------------------------------------------------------------ play_again
\* play_again without its scoreTimeoutTimers.forEach(clearTimeout) / clear().
PlayAgainKeepScoreTimers(s) ==
    /\ s \in connected
    /\ players' = [ i \in 1..Len(players) |->
                      [ players[i] EXCEPT
                          !.score = IF players[i].isSpectator THEN Num(0) ELSE Null,
                          !.finished = players[i].isSpectator ] ]
    /\ droppedBalls' = {}
    /\ gamePhase' = PLAYING
    /\ botDropTimers' = scheduleBotDrops(players', {}, {})
    /\ liveBotDropTimers' = AddLive(ClearAllLive(liveBotDropTimers, botDropTimers),
                                    botsToSchedule(players', {}, {}))
    /\ out' = << StateUpdate(players', PLAYING) >>
    /\ UNCHANGED << botCounter, scoreTimeoutTimers, liveScoreTimers, connected,
                    nextSocket, nextBot >>
    /\ UNCHANGED engineVars

\* Accepted in every phase.
PlayAgain(s) ==
    /\ s \in connected
    /\ players' = [ i \in 1..Len(players) |->
                      [ players[i] EXCEPT
                          !.score = IF players[i].isSpectator THEN Num(0) ELSE Null,
                          !.finished = players[i].isSpectator ] ]
    /\ droppedBalls' = {}
    /\ liveScoreTimers' = ClearAllLive(liveScoreTimers, scoreTimeoutTimers)
    /\ scoreTimeoutTimers' = {}
    /\ gamePhase' = PLAYING
    /\ botDropTimers' = scheduleBotDrops(players', {}, {})
    /\ liveBotDropTimers' = AddLive(ClearAllLive(liveBotDropTimers, botDropTimers),
                                    botsToSchedule(players', {}, {}))
    /\ out' = << StateUpdate(players', PLAYING) >>
    /\ UNCHANGED << botCounter, connected, nextSocket, nextBot >>
    /\ UNCHANGED engineVars

\* ------------------------------------------------------------- drop_ball
\* drop_ball without its test of droppedBalls.
DropBallAgain(s) ==
    LET playerIndex == IndexOfId(players, s)
    IN
    /\ s \in connected
    /\ IF /\ playerIndex # 0
          /\ ~players[playerIndex].isSpectator
          /\ ~players[playerIndex].finished
          /\ gamePhase = PLAYING
       THEN /\ droppedBalls' = droppedBalls \cup { s }
            /\ scoreTimeoutTimers' = scoreTimeoutTimers \cup { s }
            /\ liveScoreTimers' = [ liveScoreTimers EXCEPT ![s] = @ + 1 ]
            /\ out' = << SpawnBall(s) >>
       ELSE /\ out' = << >>
            /\ UNCHANGED << droppedBalls, scoreTimeoutTimers, liveScoreTimers >>
    /\ UNCHANGED << players, gamePhase, botCounter, botDropTimers, liveBotDropTimers,
                    connected, nextSocket, nextBot >>
    /\ UNCHANGED engineVars

\* The five early returns, then: mark dropped, start the 15 s timer, emit.
DropBall(s) ==
    LET playerIndex == IndexOfId(players, s)
    IN
    /\ s \in connected
    /\ IF /\ playerIndex # 0
          /\ ~players[playerIndex].isSpectator
          /\ s \notin droppedBalls
          /\ ~players[playerIndex].finished
          /\ gamePhase = PLAYING
       THEN /\ droppedBalls' = droppedBalls \cup { s }
            /\ scoreTimeoutTimers' = scoreTimeoutTimers \cup { s }
            /\ liveScoreTimers' = [ liveScoreTimers EXCEPT ![s] = @ + 1 ]
            /\ out' = << SpawnBall(s) >>
       ELSE /\ out' = << >>
            /\ UNCHANGED << droppedBalls, scoreTimeoutTimers, liveScoreTimers >>
    /\ UNCHANGED << players, gamePhase, botCounter, botDropTimers, liveBotDropTimers,
                    connected, nextSocket, nextBot >>
    /\ UNCHANGED engineVars

\* ---------------------------------------------------------- destroy_ball
\* Any connection may name any owner: score 0, finished, timer cleared.
DestroyBall(s, ballOwnerId) ==
    LET playerIndex == IndexOfId(players, ballOwnerId)
        ps == Finish(players, playerIndex, Num(0))
        over == checkGameOver(ps, gamePhase)
    IN
    /\ s \in connected
    /\ IF playerIndex # 0
       THEN /\ players' = ps
            /\ liveScoreTimers' = ClearLive(liveScoreTimers, scoreTimeoutTimers, ballOwnerId)
            /\ scoreTimeoutTimers' = scoreTimeoutTimers \ { ballOwnerId }
            /\ gamePhase' = over.phase
            /\ out' = << BallRemoved, StateUpdate(ps, gamePhase) >> \o over.out
       ELSE /\ out' = << >>
            /\ UNCHANGED << players, liveScoreTimers, scoreTimeoutTimers, gamePhase >>
    /\ UNCHANGED << droppedBalls, botCounter, botDropTimers, liveBotDropTimers,
                    connected, nextSocket, nextBot >>
    /\ UNCHANGED engineVars

\* ---------------------------------------------------------- score_update
\* score_update without the test on the sender: any named participant is
\* scored.
ScoreUpdateAnyTarget(s, playerId, points) ==
    LET targetPlayerId == IF playerId # Null THEN playerId ELSE s
        playerIndex == IndexOfId(players, targetPlayerId)
        ps == Finish(players, playerIndex, Num(points))
        over == checkGameOver(ps, gamePhase)
    IN
    /\ s \in connected
    /\ IF playerIndex # 0
       THEN /\ players' = ps
            /\ liveScoreTimers' = ClearLive(liveScoreTimers, scoreTimeoutTimers, targetPlayerId)
            /\ scoreTimeoutTimers' = scoreTimeoutTimers \ { targetPlayerId }
            /\ gamePhase' = over.phase
            /\ out' = << StateUpdate(ps, gamePhase) >> \o over.out
       ELSE /\ out' = << >>
            /\ UNCHANGED << players, liveScoreTimers, scoreTimeoutTimers, gamePhase >>
    /\ UNCHANGED << droppedBalls, botCounter, botDropTimers, liveBotDropTimers,
                    connected, nextSocket, nextBot >>
    /\ UNCHANGED engineVars

\* playerId is Null when the payload has none (data.playerId || socket.id).
ScoreUpdate(s, playerId, points) ==
    LET targetPlayerId == IF playerId # Null THEN playerId ELSE s
        playerIndex == IndexOfId(players, targetPlayerId)
        ps == Finish(players, playerIndex, Num(points))
        over == checkGameOver(ps, gamePhase)
    IN
    /\ s \in connected
    /\ IF playerIndex # 0 /\ (targetPlayerId = s \/ players[playerIndex].isBot)
       THEN /\ players' = ps
            /\ liveScoreTimers' = ClearLive(liveScoreTimers, scoreTimeoutTimers, targetPlayerId)
            /\ scoreTimeoutTimers' = scoreTimeoutTimers \ { targetPlayerId }
            /\ gamePhase' = over.phase
            /\ out' = << StateUpdate(ps, gamePhase) >> \o over.out
       ELSE /\ out' = << >>
            /\ UNCHANGED << players, liveScoreTimers, scoreTimeoutTimers, gamePhase >>
    /\ UNCHANGED << droppedBalls, botCounter, botDropTimers, liveBotDropTimers,
                    connected, nextSocket, nextBot >>
    /\ UNCHANGED engineVars

\* ------------------------------------------------------------ disconnect
\* The socket closes; its roster entries go; no timer is cleared.
Disconnect(s) ==
    LET ps == SelectSeq(players, LAMBDA p : p.id # s)
        over == checkGameOver(ps, gamePhase)
    IN
    /\ s \in connected
    /\ connected' = connected \ { s }
    /\ players' = ps
    /\ IF Len(ps) = 0
       THEN /\ gamePhase' = LOBBY
            /\ out' = << StateUpdate(ps, LOBBY) >>
       ELSE /\ gamePhase' = over.phase
            /\ out' = over.out \o << StateUpdate(ps, over.phase) >>
    /\ UNCHANGED << droppedBalls, botCounter, botDropTimers, liveBotDropTimers,
                    scoreTimeoutTimers, liveScoreTimers, nextSocket, nextBot >>
    /\ UNCHANGED engineVars

\* --------------------------------------------------------- timer callbacks
\* The drop callback without its `currentBot.finished` early return.
BotDropFireIgnoreFinished(b) ==
    LET botIndex == IndexOfId(players, b)
    IN
    /\ liveBotDropTimers[b] > 0
    /\ liveBotDropTimers' = [ liveBotDropTimers EXCEPT ![b] = @ - 1 ]
    /\ botDropTimers' = botDropTimers \ { b }
    /\ IF /\ botIndex # 0
          /\ b \notin droppedBalls
          /\ gamePhase = PLAYING
       THEN /\ droppedBalls' = droppedBalls \cup { b }
            /\ scoreTimeoutTimers' = scoreTimeoutTimers \cup { b }
            /\ liveScoreTimers' = [ liveScoreTimers EXCEPT ![b] = @ + 1 ]
            /\ out' = << SpawnBall(b) >>
       ELSE /\ out' = << >>
            /\ UNCHANGED << droppedBalls, scoreTimeoutTimers, liveScoreTimers >>
    /\ UNCHANGED << players, gamePhase, botCounter, connected, nextSocket, nextBot >>
    /\ UNCHANGED engineVars

\* The drop callback without its scoring timeout: the ball is spawned and
\* the bot marked dropped, but no 15 s timer is started.
BotDropFireNoTimeout(b) ==
    LET botIndex == IndexOfId(players, b)
    IN
    /\ liveBotDropTimers[b] > 0
    /\ liveBotDropTimers' = [ liveBotDropTimers EXCEPT ![b] = @ - 1 ]
    /\ botDropTimers' = botDropTimers \ { b }
    /\ IF /\ botIndex # 0
          /\ b \notin droppedBalls
          /\ ~players[botIndex].finished
          /\ gamePhase = PLAYING
       THEN /\ droppedBalls' = droppedBalls \cup { b }
            /\ out' = << SpawnBall(b) >>
       ELSE /\ out' = << >>
            /\ UNCHANGED droppedBalls
    /\ UNCHANGED << players, gamePhase, botCounter, connected, nextSocket, nextBot,
                    scoreTimeoutTimers, liveScoreTimers >>
    /\ UNCHANGED engineVars

\* The setTimeout callback of scheduleBotDrops for bot b.
BotDropFire(b) ==
    LET botIndex == IndexOfId(players, b)
    IN
    /\ liveBotDropTimers[b] > 0
    /\ liveBotDropTimers' = [ liveBotDropTimers EXCEPT ![b] = @ - 1 ]
    /\ botDropTimers' = botDropTimers \ { b }
    /\ IF /\ botIndex # 0
          /\ b \notin droppedBalls
          /\ ~players[botIndex].finished
          /\ gamePhase = PLAYING
       THEN /\ droppedBalls' = droppedBalls \cup { b }
            /\ scoreTimeoutTimers' = scoreTimeoutTimers \cup { b }
            /\ liveScoreTimers' = [ liveScoreTimers EXCEPT ![b] = @ + 1 ]
            /\ out' = << SpawnBall(b) >>
       ELSE /\ out' = << >>
            /\ UNCHANGED << droppedBalls, scoreTimeoutTimers, liveScoreTimers >>
    /\ UNCHANGED << players, gamePhase, botCounter, connected, nextSocket, nextBot >>
    /\ UNCHANGED engineVars

\* The timeout callback without its call of checkGameOver.
TimeoutFireNoGameOver(id) ==
    LET currentPlayerIndex == IndexOfId(players, id)
        ps == Finish(players, currentPlayerIndex, Num(0))
    IN
    /\ liveScoreTimers[id] > 0
    /\ liveScoreTimers' = [ liveScoreTimers EXCEPT ![id] = @ - 1 ]
    /\ scoreTimeoutTimers' = scoreTimeoutTimers \ { id }
    /\ IF currentPlayerIndex # 0 /\ ~players[currentPlayerIndex].finished
       THEN /\ players' = ps
            /\ out' = << StateUpdate(ps, gamePhase) >>
            /\ UNCHANGED gamePhase
       ELSE /\ out' = << >>
            /\ UNCHANGED << players, gamePhase >>
    /\ UNCHANGED << droppedBalls, botCounter, botDropTimers, liveBotDropTimers,
                    connected, nextSocket, nextBot >>
    /\ UNCHANGED engineVars

\* The body shared by timeoutTimer (drop_ball) and botTimeoutTimer
\* (scheduleBotDrops): force 0 points on a participant still unfinished.
TimeoutFire(id) ==
    LET currentPlayerIndex == IndexOfId(players, id)
        ps == Finish(players, currentPlayerIndex, Num(0))
        over == checkGameOver(ps, gamePhase)
    IN
    /\ liveScoreTimers[id] > 0
    /\ liveScoreTimers' = [ liveScoreTimers EXCEPT ![id] = @ - 1 ]
    /\ scoreTimeoutTimers' = scoreTimeoutTimers \ { id }
    /\ IF currentPlayerIndex # 0 /\ ~players[currentPlayerIndex].finished
       THEN /\ players' = ps
            /\ gamePhase' = over.phase
            /\ out' = << StateUpdate(ps, gamePhase) >> \o over.out
       ELSE /\ out' = << >>
            /\ UNCHANGED << players, gamePhase >>
    /\ UNCHANGED << droppedBalls, botCounter, botDropTimers, liveBotDropTimers,
                    connected, nextSocket, nextBot >>
    /\ UNCHANGED engineVars

\* timeoutTimer of drop_ball, keyed by the socket id.
ScoreTimeoutFire(s) == s \in SocketIds /\ TimeoutFire(s)

\* botTimeoutTimer of scheduleBotDrops, keyed by the bot id.
BotTimeoutFire(b) == b \in BotIds /\ TimeoutFire(b)

\* ------------------------------------------------------------------ Next
Next ==
    \/ Connect
    \/ \E s \in SocketIds, n \in HumanNames, sp \in BOOLEAN : JoinGame(s, n, sp)
    \/ \E s \in SocketIds : AddBotRejected(s)
    \/ \E s \in SocketIds : AddBotAccepted(s)
    \/ \E s \in SocketIds : StartGame(s)
    \/ \E s \in SocketIds : ResetLobby(s)
    \/ \E s \in SocketIds : PlayAgain(s)
    \/ \E s \in SocketIds : DropBall(s)
    \/ \E s \in SocketIds, o \in AllIds : DestroyBall(s, o)
    \/ \E s \in SocketIds, t \in AllIds \cup { Null }, pts \in Points : ScoreUpdate(s, t, pts)
    \/ \E s \in SocketIds : Disconnect(s)
    \/ \E b \in BotIds : BotDropFire(b)
    \/ \E s \in SocketIds : ScoreTimeoutFire(s)
    \/ \E b \in BotIds : BotTimeoutFire(b)



Spec == Init /\ [][Next]_vars
\* Timers fire: a pending setTimeout callback is eventually run by the event
\* loop unless it is cleared first.
FairSpec ==
    /\ Spec
    /\ \A b \in BotIds : WF_vars(BotDropFire(b))
    /\ \A id \in AllIds : WF_vars(TimeoutFire(id))

\* scheduleBotDrops() called on its own, in whatever state the server is in
\* (as botDrops.test.js calls it).  The handlers call it only after clearing
\* botDropTimers and droppedBalls.
ScheduleBotDropsCall ==
    /\ botDropTimers' = scheduleBotDrops(players, droppedBalls, botDropTimers)
    /\ liveBotDropTimers' = AddLive(liveBotDropTimers,
                                    botsToSchedule(players, droppedBalls, botDropTimers))
    /\ out' = << >>
    /\ UNCHANGED << players, gamePhase, droppedBalls, botCounter, scoreTimeoutTimers,
                    liveScoreTimers, connected, nextSocket, nextBot >>
    /\ UNCHANGED engineVars

\* The server with the scheduler also invoked at arbitrary moments.
SchedulerNext == Next \/ ScheduleBotDropsCall

SchedulerSpec == Init /\ [][SchedulerNext]_vars

\* The server in an environment that lets a running round be: while the
\* phase is PLAYING nobody reports a score for a bot, no join evicts a bot,
\* and nobody requests a rematch or a reset.  Everything else is as in Next.
QuietNext ==
    \/ Connect
    \/ \E s \in SocketIds, n \in HumanNames, sp \in BOOLEAN :
          /\ gamePhase = PLAYING => ~AtLimit(players)
          /\ JoinGame(s, n, sp)
    \/ \E s \in SocketIds : AddBotRejected(s)
    \/ \E s \in SocketIds : AddBotAccepted(s)
    \/ \E s \in SocketIds : StartGame(s)
    \/ \E s \in SocketIds : gamePhase # PLAYING /\ ResetLobby(s)
    \/ \E s \in SocketIds : gamePhase # PLAYING /\ PlayAgain(s)
    \/ \E s \in SocketIds : DropBall(s)
    \/ \E s \in SocketIds, o \in AllIds :
          /\ gamePhase = PLAYING => o \notin BotIds
          /\ DestroyBall(s, o)
    \/ \E s \in SocketIds, t \in AllIds \cup { Null }, pts \in Points :
          /\ gamePhase = PLAYING => t \notin BotIds
          /\ ScoreUpdate(s, t, pts)
    \/ \E s \in SocketIds : Disconnect(s)
    \/ \E b \in BotIds : BotDropFire(b)
    \/ \E s \in SocketIds : ScoreTimeoutFire(s)
    \/ \E b \in BotIds : BotTimeoutFire(b)

QuietFairSpec ==
    /\ Init /\ [][QuietNext]_vars
    /\ \A b \in BotIds : WF_vars(BotDropFire(b))
    /\ \A id \in AllIds : WF_vars(TimeoutFire(id))

\* ----------------------------------------------------------- delta engine
\* An optional field: undefined is the empty tuple, the value v is << v >>.
Undefined == << >>
Def(v) == << v >>

\* `x || d` for a string field: undefined and the empty string are falsy.
OrElse(f, d) == IF f = Undefined \/ f[1] = "" THEN d ELSE f[1]
\* The same for a colour, the empty string being the empty sequence.
ColorOr(f, d) == IF f = Undefined \/ f[1] = << >> THEN d ELSE f[1]
\* `x ?? false`
OrFalse(f) == IF f = Undefined THEN FALSE ELSE f[1]
\* `p.score === undefined ? null : p.score`
ScoreOrNull(f) == IF f = Undefined THEN Null ELSE f[1]
\* `p.name!`: the assertion does nothing at run time; an absent string stays
\* undefined, written "undefined" here.
Bang(f) == IF f = Undefined THEN "undefined" ELSE f[1]

\* A PlayerDelta carrying every field of player p.
FullEntry(p) ==
    [ id |-> p.id, name |-> Def(p.name), color |-> Def(p.color), score |-> Def(p.score),
      isCheater |-> Def(p.isCheater), isBot |-> Def(p.isBot),
      isSpectator |-> Def(p.isSpectator), finished |-> Def(p.finished) ]

\* `if (previousPlayer.f !== currentPlayer.f) delta.f = currentPlayer.f`
Changed(old, new) == IF old # new THEN Def(new) ELSE Undefined

\* The PlayerDelta of an existing player: only the changed fields.
DiffEntry(q, p) ==
    [ id |-> p.id, name |-> Changed(q.name, p.name), color |-> Changed(q.color, p.color),
      score |-> Changed(q.score, p.score),
      isCheater |-> Changed(q.isCheater, p.isCheater), isBot |-> Changed(q.isBot, p.isBot),
      isSpectator |-> Changed(q.isSpectator, p.isSpectator),
      finished |-> Changed(q.finished, p.finished) ]

\* hasChanges
HasChanges(e) ==
    \/ e.name # Undefined \/ e.color # Undefined \/ e.score # Undefined
    \/ e.isCheater # Undefined \/ e.isBot # Undefined
    \/ e.isSpectator # Undefined \/ e.finished # Undefined

\* new Map(); ps.forEach(p => map.set(p.id, p)); map.has(id)
MapHas(ps, id) == \E i \in 1..Len(ps) : ps[i].id = id
\* map.get(id): the entry set last for that key.
MapGet(ps, id) ==
    ps[CHOOSE i \in 1..Len(ps) :
          ps[i].id = id /\ \A j \in (i + 1)..Len(ps) : ps[j].id # id]

\* The entry computeStateDelta makes for currentPlayer (every field for a
\* new player, the changed fields for an existing one).
DeltaEntry(previousPlayers, currentPlayer) ==
    IF ~MapHas(previousPlayers, currentPlayer.id)
    THEN FullEntry(currentPlayer)
    ELSE DiffEntry(MapGet(previousPlayers, currentPlayer.id), currentPlayer)

\* computeStateDelta(previousState, currentState)
computeStateDelta(prev, cur) ==
    LET playerDeltas ==
            SelectSeq([ i \in 1..Len(cur.players) |-> DeltaEntry(prev.players, cur.players[i]) ],
                      HasChanges)
    IN IF prev.phase # cur.phase
       THEN [ players |-> Def([ i \in 1..Len(cur.players) |-> FullEntry(cur.players[i]) ]),
              phase |-> Def(cur.phase), fullState |-> TRUE ]
       ELSE IF Len(playerDeltas) = 0
       THEN [ players |-> Undefined, phase |-> Undefined, fullState |-> FALSE ]
       ELSE [ players |-> Def(playerDeltas), phase |-> Undefined, fullState |-> FALSE ]

\* The Player the full-state path makes of a PlayerDelta.
FromFullEntry(e) ==
    [ id |-> e.id, name |-> Bang(e.name), color |-> Bang(e.color),
      score |-> ScoreOrNull(e.score), isCheater |-> OrFalse(e.isCheater),
      isBot |-> OrFalse(e.isBot), isSpectator |-> OrFalse(e.isSpectator),
      finished |-> OrFalse(e.finished) ]

\* The same, the spectator flag of the entry left aside.
FromNewEntryNoSpectator(e) ==
    [ id |-> e.id, name |-> OrElse(e.name, ""), color |-> ColorOr(e.color, White),
      score |-> ScoreOrNull(e.score), isCheater |-> OrFalse(e.isCheater),
      isBot |-> OrFalse(e.isBot), isSpectator |-> FALSE,
      finished |-> OrFalse(e.finished) ]

\* The Player the sparse path makes of a PlayerDelta whose id is unknown.
FromNewEntry(e) ==
    [ id |-> e.id, name |-> OrElse(e.name, ""), color |-> ColorOr(e.color, White),
      score |-> ScoreOrNull(e.score), isCheater |-> OrFalse(e.isCheater),
      isBot |-> OrFalse(e.isBot), isSpectator |-> OrFalse(e.isSpectator),
      finished |-> OrFalse(e.finished) ]

\* `if (deltaPlayer.f !== undefined) existingPlayer.f = deltaPlayer.f`
Merged(old, f) == IF f # Undefined THEN f[1] ELSE old

\* The existing player after the fields of the PlayerDelta are merged in.
MergeEntry(q, e) ==
    [ id |-> q.id, name |-> Merged(q.name, e.name), color |-> Merged(q.color, e.color),
      score |-> Merged(q.score, e.score), isCheater |-> Merged(q.isCheater, e.isCheater),
      isBot |-> Merged(q.isBot, e.isBot), isSpectator |-> Merged(q.isSpectator, e.isSpectator),
      finished |-> Merged(q.finished, e.finished) ]

\* A push onto an array in place of map.set.
MapSetAppend(m, p) == Append(m, p)

\* map.set(p.id, p) on a Map kept as the sequence of its values: a known key
\* keeps its place, a new key goes to the end.
MapSet(m, p) ==
    IF MapHas(m, p.id)
    THEN [ i \in 1..Len(m) |-> IF m[i].id = p.id THEN p ELSE m[i] ]
    ELSE Append(m, p)

\* previousState.players.forEach(p => playersMap.set(p.id, { ...p }))
RECURSIVE MapOf(_)
MapOf(ps) ==
    IF Len(ps) = 0 THEN << >>
    ELSE MapSet(MapOf(SubSeq(ps, 1, Len(ps) - 1)), ps[Len(ps)])

\* delta.players.forEach(deltaPlayer => ...): update or insert, in order.
RECURSIVE ApplyEntries(_, _)
ApplyEntries(m, es) ==
    IF Len(es) = 0 THEN m
    ELSE LET done == ApplyEntries(m, SubSeq(es, 1, Len(es) - 1))
             e == es[Len(es)]
         IN IF MapHas(done, e.id)
            THEN MapSet(done, MergeEntry(MapGet(done, e.id), e))
            ELSE Append(done, FromNewEntry(e))

\* `delta.phase || previousState.phase`
PhaseOr(f, ph) == OrElse(f, ph)

\* The sparse path of applyStateDelta (the same text in both copies).
applySparse(prev, d) ==
    [ players |-> IF d.players # Undefined
                  THEN ApplyEntries(MapOf(prev.players), d.players[1])
                  ELSE MapOf(prev.players),
      phase |-> PhaseOr(d.phase, prev.phase) ]

\* The full-state path of applyStateDelta.
applyFull(prev, d) ==
    [ players |-> [ i \in 1..Len(d.players[1]) |-> FromFullEntry(d.players[1][i]) ],
      phase |-> PhaseOr(d.phase, prev.phase) ]

\* applyStateDelta of stateDiff.ts throws (delta.players.map of undefined)
\* on a full-state delta without players.
applyStateDeltaThrows(d) == d.fullState /\ d.players = Undefined

\* applyStateDelta of stateDiff.ts, where it does not throw.
applyStateDelta(prev, d) ==
    IF d.fullState THEN applyFull(prev, d) ELSE applySparse(prev, d)

\* applyStateDelta of the client: `if (delta.fullState && delta.players)`.
applyStateDeltaClient(prev, d) ==
    IF d.fullState /\ d.players # Undefined THEN applyFull(prev, d) ELSE applySparse(prev, d)

\* --------------------------------------------------- uses of the delta engine
\* Identifiers of the participants of a snapshot.
EngineIds == { "p1", "p2" }

\* Participants as the session holds them: a competitor that has not scored,
\* one that scored 50, a spectating cheater and a bot.
PlayerKinds ==
    { [ name |-> "al", color |-> HslColor, score |-> Null, isCheater |-> FALSE,
        isBot |-> FALSE, isSpectator |-> FALSE, finished |-> FALSE ],
      [ name |-> "al", color |-> HslColor, score |-> Num(50), isCheater |-> FALSE,
        isBot |-> FALSE, isSpectator |-> FALSE, finished |-> TRUE ],
      [ name |-> "ann", color |-> CheaterColor, score |-> Num(0), isCheater |-> TRUE,
        isBot |-> FALSE, isSpectator |-> TRUE, finished |-> TRUE ],
      [ name |-> "Neon-1", color |-> HslColorOfBot, score |-> Null, isCheater |-> FALSE,
        isBot |-> TRUE, isSpectator |-> FALSE, finished |-> FALSE ] }

WithId(k, id) ==
    [ id |-> id, name |-> k.name, color |-> k.color, score |-> k.score,
      isCheater |-> k.isCheater, isBot |-> k.isBot, isSpectator |-> k.isSpectator,
      finished |-> k.finished ]

EnginePlayers == { WithId(k, id) : k \in PlayerKinds, id \in EngineIds }

\* Sequences over S of length at most n.
SeqUpTo(S, n) == UNION { [ 1..k -> S ] : k \in 0..n }

Phases == { LOBBY, PLAYING, GAME_OVER }

\* join_game and add_bot give every roster entry a name of its own.
NamesDistinct(ps) == \A i, j \in 1..Len(ps) : i # j => ps[i].name # ps[j].name

\* Two roster entries with one id come from one socket joining twice; a bot
\* gets an id of its own.
SharedIdsAreSockets(ps) ==
    \A i, j \in 1..Len(ps) : (i # j /\ ps[i].id = ps[j].id) => ~ps[i].isBot

\* GameState values: rosters of up to MaxRoster participants with distinct
\* names and a phase.
Snapshots ==
    { s \in [ players : SeqUpTo(EnginePlayers, MaxRoster), phase : Phases ] :
        NamesDistinct(s.players) /\ SharedIdsAreSockets(s.players) }

UniqueIds(ps) == \A i, j \in 1..Len(ps) : i # j => ps[i].id # ps[j].id

\* computeStateDelta(previousState, currentState)
ComputeStateDelta ==
    /\ pc = "start"
    /\ delta' = computeStateDelta(previousState, currentState)
    /\ pc' = "computed"
    /\ UNCHANGED << previousState, currentState, state, wire >>
    /\ UNCHANGED serverVars
    /\ UNCHANGED loopVars

\* state = applyStateDelta(state, delta) with the function of stateDiff.ts
ApplyStateDelta ==
    /\ pc \in { "computed", "applied" }
    /\ ~applyStateDeltaThrows(delta)
    /\ state' = applyStateDelta(state, delta)
    /\ pc' = IF pc = "computed" THEN "applied" ELSE "reapplied"
    /\ UNCHANGED << previousState, currentState, delta, wire >>
    /\ UNCHANGED serverVars
    /\ UNCHANGED loopVars

\* state = applyStateDelta(state, delta) with the function of the client
ApplyStateDeltaClient ==
    /\ pc \in { "computed", "applied" }
    /\ state' = applyStateDeltaClient(state, delta)
    /\ pc' = IF pc = "computed" THEN "applied" ELSE "reapplied"
    /\ UNCHANGED << previousState, currentState, delta, wire >>
    /\ UNCHANGED serverVars
    /\ UNCHANGED loopVars

\* Two snapshots are given; the delta between them is computed and applied
\* to the first.
DeltaInit ==
    /\ ServerInit
    /\ previousState \in Snapshots
    /\ currentState \in Snapshots
    /\ delta = [ players |-> Undefined, phase |-> Undefined, fullState |-> FALSE ]
    /\ state = previousState
    /\ wire = << >>
    /\ pc = "start"
    /\ LoopIdle

DeltaNext == ComputeStateDelta \/ ApplyStateDelta \/ ApplyStateDeltaClient

DeltaSpec == DeltaInit /\ [][DeltaNext]_vars

NoField ==
    [ name |-> Undefined, color |-> Undefined, score |-> Undefined,
      isCheater |-> Undefined, isBot |-> Undefined, isSpectator |-> Undefined,
      finished |-> Undefined ]

\* What a PlayerDelta can carry besides the id: nothing, a score report, a
\* reset of the score, a new name, a new colour, and every field of a
\* participant.
EntryKinds ==
    { NoField,
      [ NoField EXCEPT !.score = Def(Num(50)), !.finished = Def(TRUE) ],
      [ NoField EXCEPT !.score = Def(Null), !.finished = Def(FALSE) ],
      [ NoField EXCEPT !.name = Def("ann") ],
      [ NoField EXCEPT !.color = Def(CheaterColor), !.isBot = Def(TRUE) ] }
    \cup { [ name |-> Def(k.name), color |-> Def(k.color), score |-> Def(k.score),
             isCheater |-> Def(k.isCheater), isBot |-> Def(k.isBot),
             isSpectator |-> Def(k.isSpectator), finished |-> Def(k.finished) ] :
           k \in { kk \in PlayerKinds : kk.isSpectator } }

EntryWithId(k, id) ==
    [ id |-> id, name |-> k.name, color |-> k.color, score |-> k.score,
      isCheater |-> k.isCheater, isBot |-> k.isBot, isSpectator |-> k.isSpectator,
      finished |-> k.finished ]

PlayerDeltas == { EntryWithId(k, id) : k \in EntryKinds, id \in EngineIds }

\* GameStateDelta values without fullState: players absent or up to
\* MaxEntries entries, phase absent or present.
SparseDeltas ==
    [ players : { Undefined } \cup { Def(es) : es \in SeqUpTo(PlayerDeltas, MaxEntries) },
      phase : { Undefined } \cup { Def(ph) : ph \in Phases },
      fullState : { FALSE } ]

\* A snapshot and a delta are given; the delta is applied to the snapshot and
\* to the result again.
ApplyInit ==
    /\ ServerInit
    /\ previousState \in Snapshots
    /\ currentState = previousState
    /\ delta \in SparseDeltas
    /\ state = previousState
    /\ wire = << >>
    /\ pc = "computed"
    /\ LoopIdle

ApplyNext == ApplyStateDelta \/ ApplyStateDeltaClient

ApplySpec == ApplyInit /\ [][ApplyNext]_vars

\* ------------------------------------------------------------ serializers
HexLower == << "0", "1", "2", "3", "4", "5", "6", "7", "8", "9", "a", "b", "c", "d", "e", "f" >>
HexUpper == << "0", "1", "2", "3", "4", "5", "6", "7", "8", "9", "A", "B", "C", "D", "E", "F" >>

IsHexDigit(c) == \E k \in 1..16 : HexLower[k] = c \/ HexUpper[k] = c
HexDigit(c) == (CHOOSE k \in 1..16 : HexLower[k] = c \/ HexUpper[k] = c) - 1

\* color.replace('#', ''): the first '#' is taken out.
RemoveHash(cs) ==
    IF \E i \in 1..Len(cs) : cs[i] = "#"
    THEN LET i == CHOOSE k \in 1..Len(cs) : cs[k] = "#" /\ \A j \in 1..(k - 1) : cs[j] # "#"
         IN SubSeq(cs, 1, i - 1) \o SubSeq(cs, i + 1, Len(cs))
    ELSE cs

\* hex.substring(from, to), positions counted from 0.
Substring(cs, from, to) ==
    SubSeq(cs, (IF from < Len(cs) THEN from ELSE Len(cs)) + 1, IF to < Len(cs) THEN to ELSE Len(cs))

\* parseInt(x, 16) of a string of at most two characters without blank or
\* sign: the value of the leading hex digits, NaN (Undefined) without one.
ParseInt16(cs) ==
    IF Len(cs) = 0 \/ ~IsHexDigit(cs[1]) THEN Undefined
    ELSE IF Len(cs) = 1 \/ ~IsHexDigit(cs[2]) THEN Def(HexDigit(cs[1]))
    ELSE Def(16 * HexDigit(cs[1]) + HexDigit(cs[2]))

\* The operand of << and |: NaN becomes 0.
ToInt32(x) == IF x = Undefined THEN 0 ELSE x[1]

\* colorToInt(color): (r << 16) | (g << 8) | b with r, g, b in 0..255.
colorToInt(color) ==
    LET hex == RemoveHash(color)
        r == ToInt32(ParseInt16(Substring(hex, 0, 2)))
        g == ToInt32(ParseInt16(Substring(hex, 2, 4)))
        b == ToInt32(ParseInt16(Substring(hex, 4, 6)))
    IN r * 65536 + g * 256 + b

\* n.toString(16).padStart(2, '0') for n in 0..255.
Hex2(n) == << HexLower[(n \div 16) + 1], HexLower[(n % 16) + 1] >>

\* intToColor(colorInt) for a packed colour that is not negative.
intToColor(colorInt) ==
    << "#" >> \o Hex2((colorInt \div 65536) % 256) \o Hex2((colorInt \div 256) % 256)
              \o Hex2(colorInt % 256)

\* playerToProto with 0 as the wire form of a null score.
playerToProtoZeroSentinel(player) ==
    [ id |-> player.id, name |-> player.name, color |-> colorToInt(player.color),
      score |-> IF player.score = Null THEN 0 ELSE player.score[1],
      isCheater |-> player.isCheater, isBot |-> player.isBot,
      isSpectator |-> player.isSpectator, finished |-> player.finished ]

\* playerToProto(player): a null score goes out as -1.
playerToProto(player) ==
    [ id |-> player.id, name |-> player.name, color |-> colorToInt(player.color),
      score |-> IF player.score = Null THEN -1 ELSE player.score[1],
      isCheater |-> player.isCheater, isBot |-> player.isBot,
      isSpectator |-> player.isSpectator, finished |-> player.finished ]

\* protoToPlayer(protoPlayer): -1 comes back as null.
protoToPlayer(protoPlayer) ==
    [ id |-> protoPlayer.id, name |-> protoPlayer.name, color |-> intToColor(protoPlayer.color),
      score |-> IF protoPlayer.score = -1 THEN Null ELSE Num(protoPlayer.score),
      isCheater |-> protoPlayer.isCheater, isBot |-> protoPlayer.isBot,
      isSpectator |-> protoPlayer.isSpectator, finished |-> protoPlayer.finished ]

\* The scores a participant gets: 0 for a spectator or a timeout, and the
\* values of the buckets.
Scores == { 0, 10, 25, 50, 100 }

\* The colour of the cheater ball and a colour as handleAddPlayer and add_bot
\* generate it.
CodecColors == { CheaterColor, HslColor }

\* Participants handed to the serializers: competitors without a score or
\* with one, and spectators.
CodecPlayers ==
    { [ id |-> id, name |-> "al", color |-> c, score |-> sc, isCheater |-> FALSE,
        isBot |-> FALSE, isSpectator |-> sp, finished |-> sc # Null ] :
      id \in EngineIds, c \in CodecColors, sc \in { Null } \cup { Num(n) : n \in Scores },
      sp \in BOOLEAN }

\* players.map(playerToProto)
PlayerToProto ==
    /\ pc = "start"
    /\ wire' = [ i \in 1..Len(currentState.players) |-> playerToProto(currentState.players[i]) ]
    /\ pc' = "encoded"
    /\ UNCHANGED << previousState, currentState, delta, state >>
    /\ UNCHANGED serverVars
    /\ UNCHANGED loopVars

\* message.players.map(protoToPlayer)
ProtoToPlayer ==
    /\ pc = "encoded"
    /\ state' = [ players |-> [ i \in 1..Len(wire) |-> protoToPlayer(wire[i]) ],
                  phase |-> currentState.phase ]
    /\ pc' = "decoded"
    /\ UNCHANGED << previousState, currentState, delta, wire >>
    /\ UNCHANGED serverVars
    /\ UNCHANGED loopVars

\* A roster is converted to its wire form and back.
CodecInit ==
    /\ ServerInit
    /\ currentState \in [ players : SeqUpTo(CodecPlayers, MaxRoster) \ { << >> },
                           phase : { PLAYING } ]
    /\ previousState = currentState
    /\ delta = [ players |-> Undefined, phase |-> Undefined, fullState |-> FALSE ]
    /\ state = [ players |-> << >>, phase |-> LOBBY ]
    /\ wire = << >>
    /\ pc = "start"
    /\ LoopIdle

CodecNext == PlayerToProto \/ ProtoToPlayer

CodecSpec == CodecInit /\ [][CodecNext]_vars

\* ------------------------------------------------------ deltas on the wire
\* gamePhaseMap of serializeGameState
PhaseNumber(ph) == IF ph = PLAYING THEN 1 ELSE IF ph = GAME_OVER THEN 2 ELSE 0

\* `gamePhaseMap[phase] || 0`, the phase being absent for a delta without one.
PhaseToWire(f) == IF f = Undefined THEN 0 ELSE PhaseNumber(f[1])

\* `gamePhaseMap[message.phase] || GamePhase.LOBBY`
PhaseFromWire(n) == IF n = 1 THEN PLAYING ELSE IF n = 2 THEN GAME_OVER ELSE LOBBY

\* The entry carries every field of a participant.
EntryComplete(e) ==
    /\ e.name # Undefined /\ e.color # Undefined /\ e.score # Undefined
    /\ e.isCheater # Undefined /\ e.isBot # Undefined
    /\ e.isSpectator # Undefined /\ e.finished # Undefined

\* serializeGameState(delta.players, delta.phase) does not return a buffer:
\* players.map of undefined and color.replace of undefined throw, and an
\* entry lacking a field of the schema is not encoded.
serializeGameStateThrows(d) ==
    \/ d.players = Undefined
    \/ \E k \in 1..Len(d.players[1]) : ~EntryComplete(d.players[1][k])

\* The message serializeGameState(delta.players, delta.phase) encodes.
serializeGameState(d) ==
    [ players |-> [ k \in 1..Len(d.players[1]) |->
                      playerToProto(FromFullEntry(d.players[1][k])) ],
      phase |-> PhaseToWire(d.phase) ]

\* What deserializeGameState returns, handed to applyStateDelta as the delta:
\* players and phase are always present, fullState never.
deserializeGameState(message) ==
    [ players |-> Def([ k \in 1..Len(message.players) |->
                          FullEntry(protoToPlayer(message.players[k])) ]),
      phase |-> Def(PhaseFromWire(message.phase)),
      fullState |-> FALSE ]

\* The owner: const buffer = await serializeGameState(delta.players, delta.phase)
SerializeGameState ==
    /\ pc = "computed"
    /\ ~serializeGameStateThrows(delta)
    /\ wire' = serializeGameState(delta)
    /\ pc' = "encoded"
    /\ UNCHANGED << previousState, currentState, delta, state >>
    /\ UNCHANGED serverVars
    /\ UNCHANGED loopVars

\* The follower: const delta = await deserializeGameState(data)
DeserializeGameState ==
    /\ pc = "encoded"
    /\ delta' = deserializeGameState(wire)
    /\ pc' = "decoded"
    /\ UNCHANGED << previousState, currentState, state, wire >>
    /\ UNCHANGED serverVars
    /\ UNCHANGED loopVars

\* The follower: const newState = applyStateDelta(previousState, delta)
ApplyDecoded ==
    /\ pc = "decoded"
    /\ state' = applyStateDeltaClient(state, delta)
    /\ pc' = "applied"
    /\ UNCHANGED << previousState, currentState, delta, wire >>
    /\ UNCHANGED serverVars
    /\ UNCHANGED loopVars

WireNext == ComputeStateDelta \/ SerializeGameState \/ DeserializeGameState \/ ApplyDecoded

\* The owner goes from previousState to currentState and sends the delta;
\* the follower, holding previousState, receives and applies it.
WireSpec == DeltaInit /\ [][WireNext]_vars

\* ------------------------------------------------- a follower of the session
\* A participant of the session as a Player of the delta engine.  color and
\* isCheater come with the join payload (or from add_bot) and no handler
\* writes them afterwards.
OwnerPlayer(p) ==
    [ id |-> p.id, name |-> p.name,
      color |-> IF p.isBot THEN HslColorOfBot ELSE HslColor,
      score |-> p.score, isCheater |-> FALSE, isBot |-> p.isBot,
      isSpectator |-> p.isSpectator, finished |-> p.finished ]

\* const currentState = { players, phase: gamePhase }
OwnerState ==
    [ players |-> [ i \in 1..Len(players) |-> OwnerPlayer(players[i]) ],
      phase |-> gamePhase ]

\* After a handler has changed the roster or the phase: the owner computes
\* the delta from the state it sent last, remembers the new state, and the
\* follower applies the delta unless it is empty (neither players nor phase).
MirrorSync ==
    /\ previousState # OwnerState
    /\ delta' = computeStateDelta(previousState, OwnerState)
    /\ state' = IF delta'.players = Undefined /\ delta'.phase = Undefined
                 THEN state
                 ELSE applyStateDeltaClient(state, delta')
    /\ previousState' = OwnerState
    /\ currentState' = OwnerState
    /\ UNCHANGED << wire, pc >>
    /\ UNCHANGED serverVars
    /\ UNCHANGED loopVars

\* The handlers of the connections: joins, drops and score reports,
\* disconnects, starts, rematches and resets.
MirrorHandlers ==
    \/ Connect
    \/ \E s \in SocketIds, n \in HumanNames, sp \in BOOLEAN : JoinGame(s, n, sp)
    \/ \E s \in SocketIds : StartGame(s)
    \/ \E s \in SocketIds : ResetLobby(s)
    \/ \E s \in SocketIds : PlayAgain(s)
    \/ \E s \in SocketIds : DropBall(s)
    \/ \E s \in SocketIds, t \in SocketIds \cup { Null }, pts \in Points : ScoreUpdate(s, t, pts)
    \/ \E s \in SocketIds : Disconnect(s)

\* The session with a follower: a delta goes out after every handler that
\* changed the state, before the next handler runs.
MirrorNext == (previousState = OwnerState /\ MirrorHandlers) \/ MirrorSync

MirrorSpec == Init /\ [][MirrorNext]_vars

\* ------------------------------------------------ the name loop of add_bot
\* What one iteration does to botCounter; the loop without `botCounter++`.
NextCounterStuck(fallback) == botCounter

\* What one iteration does to botCounter: `botCounter++` in the fallback.
NextCounter(fallback) == IF fallback THEN botCounter + 1 ELSE botCounter

\* One iteration of the do-while loop, g being what
\* generateSynthwaveBotName() returns: attempts++, the numbered name past
\* the budget, then the test of the while.
LoopIteration(g) ==
    LET n == IF attempts <= AttemptBudget THEN attempts + 1 ELSE attempts
        fallback == n > AttemptBudget
        name == IF fallback THEN FallbackName(botCounter) ELSE g
    IN
    /\ pc = "loop"
    /\ fallback => botCounter <= MaxCounter
    /\ attempts' = n
    /\ botName' = name
    /\ botCounter' = NextCounter(fallback)
    /\ pc' = IF NameTaken(players, name) THEN "loop" ELSE "named"
    /\ UNCHANGED << players, gamePhase, droppedBalls, botDropTimers, liveBotDropTimers,
                    scoreTimeoutTimers, liveScoreTimers, connected, nextSocket, nextBot, out >>
    /\ UNCHANGED << previousState, currentState, delta, state, wire >>

\* After the loop: the bot is pushed and the roster broadcast.
PushBot ==
    /\ pc = "named"
    /\ nextBot <= MaxBotIds
    /\ players' = Append(players, NewBot(BotId(nextBot), botName))
    /\ nextBot' = nextBot + 1
    /\ out' = << StateUpdate(players', gamePhase) >>
    /\ pc' = "done"
    /\ UNCHANGED << gamePhase, droppedBalls, botCounter, botDropTimers, liveBotDropTimers,
                    scoreTimeoutTimers, liveScoreTimers, connected, nextSocket >>
    /\ UNCHANGED << previousState, currentState, delta, state, wire >>
    /\ UNCHANGED loopVars

\* Names a roster entry can carry when add_bot is called.
RosterNames == HumanNames \cup GenNames \cup { FallbackName(k) : k \in 1..3 }

\* Rosters below the limit, the k-th entry being a participant of the k-th
\* connection, with names that differ ignoring case.
LoopRosters ==
    { ps \in UNION { [ 1..k -> [ id : SocketIds, name : RosterNames, score : { Null },
                                 isBot : { FALSE }, isSpectator : { FALSE },
                                 finished : { FALSE } ] ] : k \in 0..(MaxPlayers - 1) } :
        /\ \A i \in 1..Len(ps) : ps[i].id = SocketId(i)
        /\ \A i, j \in 1..Len(ps) :
              i # j => toLowerCase(ps[i].name) # toLowerCase(ps[j].name) }

\* add_bot has passed its limit check, in any phase, and enters the loop.
AddBotInit ==
    /\ players \in LoopRosters
    /\ gamePhase \in { LOBBY, PLAYING, GAME_OVER }
    /\ droppedBalls = {}
    /\ botCounter \in 1..3
    /\ botDropTimers = {}
    /\ liveBotDropTimers = [ b \in BotIds |-> 0 ]
    /\ scoreTimeoutTimers = {}
    /\ liveScoreTimers = [ id \in AllIds |-> 0 ]
    /\ connected = { SocketId(i) : i \in 1..(Len(players) + 1) }
    /\ nextSocket = Len(players) + 2
    /\ nextBot = 1
    /\ out = << >>
    /\ previousState = [ players |-> << >>, phase |-> LOBBY ]
    /\ currentState = [ players |-> << >>, phase |-> LOBBY ]
    /\ delta = [ players |-> << >>, phase |-> << >>, fullState |-> FALSE ]
    /\ state = [ players |-> << >>, phase |-> LOBBY ]
    /\ wire = << >>
    /\ pc = "loop"
    /\ LoopIdle

AddBotLoopNext == (\E g \in GenNames : LoopIteration(g)) \/ PushBot

\* The handler runs to its end: no other handler runs in between.
AddBotLoopSpec == AddBotInit /\ [][AddBotLoopNext]_vars /\ WF_vars(AddBotLoopNext)

\* ------------------------------------------------------------ properties
\* At least one non-spectator participant exists and every one is finished.
RoundResolved(ps) ==
    /\ \E i \in 1..Len(ps) : ~ps[i].isSpectator
    /\ \A i \in 1..Len(ps) : ~ps[i].isSpectator => ps[i].finished

\* A score report that was accepted (score_update, destroy_ball or a scoring
\* timeout that forced 0), or a disconnect.  An accepted report broadcasts.
ScoreChangeOrRemoval ==
    /\ \/ \E s \in SocketIds, t \in AllIds \cup { Null }, pts \in Points : ScoreUpdate(s, t, pts)
       \/ \E s \in SocketIds, o \in AllIds : DestroyBall(s, o)
       \/ \E id \in AllIds : TimeoutFire(id)
       \/ \E s \in SocketIds : Disconnect(s)
    /\ out' # << >>

C2_RoundOverOnlyWhenResolved ==
    [][ (gamePhase' = GAME_OVER /\ gamePhase # GAME_OVER)
          => (gamePhase = PLAYING /\ RoundResolved(players')) ]_vars

\* A disconnect has just resolved the round: checkGameOver broadcast
\* GAME_OVER and the handler broadcast the state again.
C2_Witness ==
    /\ gamePhase = GAME_OVER
    /\ RoundResolved(players)
    /\ out = << StateUpdate(players, GAME_OVER), StateUpdate(players, GAME_OVER) >>
\* Every display name a roster entry can carry.
AllNames == HumanNames \cup GenNames \cup { FallbackName(k) : k \in 1..MaxCounter }

\* The roster entry named n (names are unique in the roster).
HasEntry(n) == \E i \in 1..Len(players) : players[i].name = n
Entry(n) == players[CHOOSE i \in 1..Len(players) : players[i].name = n]

\* C3: a participant marked acted in a Playing round is eventually finished
\* with a non-null score, or leaves the roster, or the round is restarted
\* (which empties the acted set).
C3_ActedEventuallySettled ==
    \A n \in AllNames :
        (HasEntry(n) /\ gamePhase = PLAYING /\ Entry(n).id \in droppedBalls)
        ~> \/ ~HasEntry(n)
           \/ Entry(n).finished /\ Entry(n).score # Null
           \/ Entry(n).id \notin droppedBalls
InRoster(id) == IndexOfId(players, id) # 0
ById(id) == players[IndexOfId(players, id)]

\* Every competitor is a bot that has a drop timer, has dropped or is finished.
CompetitorsAreScheduledBots ==
    /\ \E i \in 1..Len(players) : ~players[i].isSpectator
    /\ \A i \in 1..Len(players) : ~players[i].isSpectator =>
          /\ players[i].isBot
          /\ \/ players[i].id \in botDropTimers
             \/ players[i].id \in droppedBalls
             \/ players[i].finished

\* C4: a round that is let be (QuietFairSpec).  start_game from LOBBY and
\* play_again leave a drop timer for every non-spectator bot of the roster;
\* a bot with a drop timer eventually has its ball spawned, and eventually
\* has score 0 and finished = true; a round whose competitors are all such
\* bots eventually is GAME_OVER (unless another competitor turns up).
C4_BotRoundCompletion ==
    /\ [][ ( \/ \E s \in SocketIds : gamePhase = LOBBY /\ StartGame(s)
             \/ \E s \in SocketIds : PlayAgain(s) )
           => \A i \in 1..Len(players') :
                 (players'[i].isBot /\ ~players'[i].isSpectator)
                    => players'[i].id \in botDropTimers' ]_vars
    /\ \A b \in BotIds :
          (InRoster(b) /\ b \in botDropTimers) ~> (out = << SpawnBall(b) >>)
    /\ \A b \in BotIds :
          (InRoster(b) /\ b \in botDropTimers)
             ~> (InRoster(b) /\ ById(b).finished /\ ById(b).score = Num(0))
    /\ (gamePhase = PLAYING /\ CompetitorsAreScheduledBots)
          ~> (gamePhase = GAME_OVER \/ ~CompetitorsAreScheduledBots)

\* A bot's scoring timeout has just resolved a round of bots only.
C4_Witness ==
    /\ gamePhase = GAME_OVER
    /\ out = << StateUpdate(players, PLAYING), StateUpdate(players, GAME_OVER) >>
    /\ \A i \in 1..Len(players) : ~players[i].isSpectator =>
          players[i].isBot /\ players[i].finished /\ players[i].score = Num(0)
    /\ \E i \in 1..Len(players) : players[i].isBot
\* data.playerId || socket.id
TargetOf(s, playerId) == IF playerId # Null THEN playerId ELSE s

\* C5: a score report (score_update or destroy_ball) aimed at a participant
\* that is already finished leaves that participant's score and the phase
\* unchanged.
C5_FinishedScoreKept ==
    [][ \A s \in SocketIds, t \in AllIds \cup { Null } :
          ( /\ \/ \E pts \in Points : ScoreUpdate(s, t, pts)
               \/ t # Null /\ DestroyBall(s, t)
            /\ InRoster(TargetOf(s, t))
            /\ ById(TargetOf(s, t)).finished )
          => /\ players'[IndexOfId(players, TargetOf(s, t))].score = ById(TargetOf(s, t)).score
             /\ gamePhase' = gamePhase ]_vars

\* C6: a join whose name is taken (ignoring case) leaves roster, phase and
\* timers as they were, broadcasts nothing and sends one error message, to
\* the joining connection only.
C6_DuplicateJoinChangesNothing ==
    [][ \A s \in SocketIds, n \in HumanNames, sp \in BOOLEAN :
          (JoinGame(s, n, sp) /\ NameTaken(players, n))
          => /\ players' = players
             /\ gamePhase' = gamePhase
             /\ botDropTimers' = botDropTimers
             /\ liveBotDropTimers' = liveBotDropTimers
             /\ scoreTimeoutTimers' = scoreTimeoutTimers
             /\ liveScoreTimers' = liveScoreTimers
             /\ Len(out') = 1
             /\ out'[1].type = "error_message"
             /\ out'[1].to = s ]_vars

\* C7: the roster never holds more than the maximum number of participants,
\* and an add_bot at the maximum is rejected with the capacity error and
\* leaves the roster unchanged.
C7_CapacityInvariant ==
    /\ [](Len(players) <= MaxPlayers)
    /\ [][ \A s \in SocketIds :
             (AddBot(s) /\ Len(players) >= MaxPlayers)
             => /\ players' = players
                /\ out' = << ErrorMessage(s, "Max player limit has been reached") >> ]_vars

\* The roster is full and a request has just been rejected for capacity.
C7_Witness ==
    /\ Len(players) = MaxPlayers
    /\ Len(out) = 1
    /\ out[1].type = "error_message"
    /\ out[1].text = "Max player limit has been reached"

NumBots(ps) == Cardinality({ i \in 1..Len(ps) : ps[i].isBot })

\* C8: a join at the maximum evicts exactly one bot and admits the human
\* (the size stays at the maximum) when a bot exists, and otherwise fails
\* with the capacity error, the roster unchanged; no bot is evicted by a
\* join that is rejected.
C8_EvictionAdmitsHuman ==
    [][ \A s \in SocketIds, n \in HumanNames, sp \in BOOLEAN :
          (JoinGame(s, n, sp) /\ Len(players) >= MaxPlayers)
          => IF NumBots(players) > 0
             THEN /\ Len(players') = Len(players)
                  /\ NumBots(players') = NumBots(players) - 1
                  /\ players'[Len(players')].id = s
                  /\ players'[Len(players')].name = n
             ELSE /\ players' = players
                  /\ out' = << ErrorMessage(s, "Max player limit has been reached") >> ]_vars

\* C9: no two roster entries have names that are equal ignoring case.
C9_NamesUnique ==
    \A i, j \in 1..Len(players) :
        i # j => toLowerCase(players[i].name) # toLowerCase(players[j].name)

\* A join has just been refused for a name that a bot of the roster holds
\* in another spelling.
C9_Witness ==
    /\ \E i \in 1..Len(players) :
          players[i].isBot /\ players[i].name = "Neon-1"
    /\ Len(players) < MaxPlayers
    /\ Len(out) = 1
    /\ out[1].type = "error_message"
    /\ out[1].text = "Name already taken"

\* C10: no two roster entries have the same identifier.
C10_IdsUnique ==
    \A i, j \in 1..Len(players) : i # j => players[i].id # players[j].id

\* C11: every spectator is finished and has a score, and every finished
\* non-spectator has a score (a score is a number, never null).
C11_ParticipantInvariant ==
    \A i \in 1..Len(players) :
        /\ players[i].isSpectator => (players[i].finished /\ players[i].score # Null)
        /\ (players[i].finished /\ ~players[i].isSpectator) => players[i].score # Null

\* A round has ended with a spectator looking on and a competitor that
\* scored 50.
C11_Witness ==
    /\ gamePhase = GAME_OVER
    /\ \E i \in 1..Len(players) :
          players[i].isSpectator /\ players[i].finished /\ players[i].score = Num(0)
    /\ \E i \in 1..Len(players) :
          ~players[i].isSpectator /\ players[i].finished /\ players[i].score = Num(50)

\* C12: start_game in phase PLAYING or GAME_OVER changes nothing (roster,
\* phase, acted set, drop timers, scoring timers) and emits nothing; and no
\* start_game leaves the phase LOBBY, so a repeated start_game is such a
\* no-op.
C12_StartOutsideLobbyIsNoOp ==
    [][ \A s \in SocketIds :
          StartGame(s)
          => /\ gamePhase # LOBBY
                  => /\ UNCHANGED << players, gamePhase, droppedBalls, botDropTimers,
                                     liveBotDropTimers, scoreTimeoutTimers, liveScoreTimers >>
                     /\ out' = << >>
             /\ gamePhase' # LOBBY ]_vars

\* A running round with a drop timer pending and a scoring timer pending,
\* after a request that was ignored.
C12_Witness ==
    /\ gamePhase = PLAYING
    /\ out = << >>
    /\ \E b \in BotIds : liveBotDropTimers[b] = 1
    /\ \E s \in connected : s \in droppedBalls /\ liveScoreTimers[s] = 1

\* The identifiers of the bots of the roster that are no spectators.
NonSpectatorBots(ps) ==
    { ps[i].id : i \in { j \in 1..Len(ps) : ps[j].isBot /\ ~ps[j].isSpectator } }

\* C13: start_game in phase LOBBY leaves phase PLAYING, the same roster
\* entries with the same scores, finished true exactly for the spectators,
\* an empty acted set, and one pending drop timer for each non-spectator bot
\* and for nobody else.
C13_StartFromLobby ==
    [][ \A s \in SocketIds :
          (StartGame(s) /\ gamePhase = LOBBY)
          => /\ gamePhase' = PLAYING
             /\ Len(players') = Len(players)
             /\ \A i \in 1..Len(players) :
                   /\ players'[i].finished = players[i].isSpectator
                   /\ players'[i].score = players[i].score
                   /\ players'[i].id = players[i].id
                   /\ players'[i].name = players[i].name
                   /\ players'[i].isBot = players[i].isBot
                   /\ players'[i].isSpectator = players[i].isSpectator
             /\ droppedBalls' = {}
             /\ botDropTimers' = NonSpectatorBots(players)
             /\ \A b \in BotIds :
                   liveBotDropTimers'[b] = IF b \in NonSpectatorBots(players) THEN 1 ELSE 0 ]_vars

\* A round has just been started with a spectator and a bot whose score of
\* the lobby was kept: the bot is unfinished and has its drop timer.
C13_Witness ==
    /\ gamePhase = PLAYING
    /\ out = << StateUpdate(players, PLAYING) >>
    /\ droppedBalls = {}
    /\ \E i \in 1..Len(players) : players[i].isSpectator /\ players[i].finished
    /\ \E i \in 1..Len(players) :
          /\ players[i].isBot /\ ~players[i].finished /\ players[i].score = Num(50)
          /\ liveBotDropTimers[players[i].id] = 1

\* C14: play_again, in whatever phase, leaves phase PLAYING, the same roster
\* entries with score 0 and finished for spectators and score null and
\* unfinished for the others, an empty acted set, no scoring timer pending,
\* and one pending drop timer for each non-spectator bot and nobody else.
C14_Rematch ==
    [][ \A s \in SocketIds :
          PlayAgain(s)
          => /\ gamePhase' = PLAYING
             /\ Len(players') = Len(players)
             /\ \A i \in 1..Len(players) :
                   /\ players'[i].id = players[i].id
                   /\ players'[i].name = players[i].name
                   /\ players'[i].isSpectator = players[i].isSpectator
                   /\ players'[i].finished = players[i].isSpectator
                   /\ players'[i].score = IF players[i].isSpectator THEN Num(0) ELSE Null
             /\ droppedBalls' = {}
             /\ scoreTimeoutTimers' = {}
             /\ \A id \in AllIds : liveScoreTimers'[id] = 0
             /\ botDropTimers' = NonSpectatorBots(players)
             /\ \A b \in BotIds :
                   liveBotDropTimers'[b] = IF b \in NonSpectatorBots(players) THEN 1 ELSE 0 ]_vars

\* A round has just been (re)started for a bot and a human competitor: both
\* without score, nobody has acted, only the bot's drop timer is pending.
C14_Witness ==
    /\ gamePhase = PLAYING
    /\ out = << StateUpdate(players, PLAYING) >>
    /\ droppedBalls = {}
    /\ \A id \in AllIds : liveScoreTimers[id] = 0
    /\ \E i \in 1..Len(players) :
          ~players[i].isBot /\ ~players[i].finished /\ players[i].score = Null
    /\ \E i \in 1..Len(players) :
          /\ players[i].isBot /\ ~players[i].finished /\ players[i].score = Null
          /\ liveBotDropTimers[players[i].id] = 1

\* No setTimeout callback of the server is pending.
NoTimerPending ==
    /\ botDropTimers = {}
    /\ scoreTimeoutTimers = {}
    /\ \A b \in BotIds : liveBotDropTimers[b] = 0
    /\ \A id \in AllIds : liveScoreTimers[id] = 0

\* C15: reset_lobby, in whatever phase, leaves an empty roster, phase LOBBY,
\* an empty acted set and no drop timer and no scoring timer pending; so
\* nothing scheduled before the reset can fire after it.
C15_ResetClearsEverything ==
    [][ \A s \in SocketIds :
          ResetLobby(s)
          => /\ players' = << >>
             /\ gamePhase' = LOBBY
             /\ droppedBalls' = {}
             /\ NoTimerPending' ]_vars

\* The lobby has just been reset: the roster is empty although a bot had
\* been added (a bot leaves a roster that becomes empty only by a reset).
C15_Witness ==
    /\ players = << >>
    /\ gamePhase = LOBBY
    /\ out = << StateUpdate(<< >>, LOBBY) >>
    /\ nextBot > 1
    /\ NoTimerPending

\* A step in which checkGameOver() is evaluated: an accepted score report, a
\* scoring timeout that forced 0, or a disconnect.
GameOverEvaluated == ScoreChangeOrRemoval

\* C16: every change of phase is LOBBY to PLAYING by start_game, PLAYING to
\* GAME_OVER by a game-over evaluation, PLAYING or GAME_OVER to PLAYING by
\* play_again, or any phase to LOBBY by reset_lobby or by a disconnect that
\* empties the roster; a play_again never moves the phase out of LOBBY.
C16_LegalPhaseTransitions ==
    [][ gamePhase' # gamePhase
          => \/ /\ gamePhase = LOBBY /\ gamePhase' = PLAYING
                /\ \E s \in SocketIds : StartGame(s)
             \/ /\ gamePhase = PLAYING /\ gamePhase' = GAME_OVER
                /\ GameOverEvaluated
             \/ /\ gamePhase \in { PLAYING, GAME_OVER } /\ gamePhase' = PLAYING
                /\ \E s \in SocketIds : PlayAgain(s)
             \/ /\ gamePhase' = LOBBY
                /\ \/ \E s \in SocketIds : ResetLobby(s)
                   \/ \E s \in SocketIds : Disconnect(s) /\ players' = << >> ]_vars

\* A scoring-timeout callback keyed by id is pending.
ScoringTimerPending(id) == liveScoreTimers[id] > 0

\* C17: every roster entry marked acted has either a pending scoring timer
\* or finished = true, not both and not neither; an entry that has not acted
\* has no pending scoring timer.
C17_SchedulerInvariant ==
    \A i \in 1..Len(players) :
        IF players[i].id \in droppedBalls
        THEN ScoringTimerPending(players[i].id) # players[i].finished
        ELSE ~ScoringTimerPending(players[i].id)

\* The identifiers of the roster.
IdsOf(ps) == { ps[i].id : i \in 1..Len(ps) }

\* C18: when a step removes a participant from the roster (disconnect, bot
\* eviction or reset_lobby), then after the step no drop timer and no scoring
\* timer keyed by that participant's identifier is pending.
C18_TimerCleanupOnRemoval ==
    [][ \A id \in IdsOf(players) \ IdsOf(players') :
          /\ id \notin botDropTimers'
          /\ id \notin scoreTimeoutTimers'
          /\ liveScoreTimers'[id] = 0
          /\ id \in BotIds => liveBotDropTimers'[id] = 0 ]_vars

\* C19: a drop timer that fires when its bot is no longer in the roster, or
\* is finished, or has already acted, or the phase is not PLAYING, emits no
\* spawn_ball, does not mark the bot acted, starts no scoring timer, leaves
\* roster and phase unchanged, and the bot's drop timer is gone.
C19_BotDropRevalidation ==
    [][ \A b \in BotIds :
          ( /\ BotDropFire(b)
            /\ \/ ~InRoster(b)
               \/ ById(b).finished
               \/ b \in droppedBalls
               \/ gamePhase # PLAYING )
          => /\ out' = << >>
             /\ UNCHANGED << droppedBalls, scoreTimeoutTimers, liveScoreTimers,
                             players, gamePhase >>
             /\ b \notin botDropTimers'
             /\ liveBotDropTimers'[b] = 0 ]_vars

\* A bot whose score was reported before its drop timer fired: the round
\* goes on, the timer is gone, nothing was emitted, the bot has not acted.
C19_Witness ==
    /\ gamePhase = PLAYING
    /\ out = << >>
    /\ \E b \in BotIds :
          /\ InRoster(b) /\ ById(b).finished /\ ById(b).score = Num(50)
          /\ b \notin droppedBalls
          /\ b \notin botDropTimers /\ liveBotDropTimers[b] = 0
          /\ liveScoreTimers[b] = 0
    /\ \E i \in 1..Len(players) : ~players[i].isSpectator /\ ~players[i].finished

\* C20: at most one drop timer is pending per bot and at most one scoring
\* timer per participant; a call of the scheduler schedules nothing for a
\* bot that has a pending drop timer or has already acted this round.
C20_TimerIdempotency ==
    /\ [](\A b \in BotIds : liveBotDropTimers[b] <= 1)
    /\ [](\A id \in AllIds : liveScoreTimers[id] <= 1)
    /\ [][ ScheduleBotDropsCall
             => \A b \in BotIds :
                   (liveBotDropTimers[b] > 0 \/ b \in droppedBalls)
                   => /\ liveBotDropTimers'[b] = liveBotDropTimers[b]
                      /\ (b \in botDropTimers') = (b \in botDropTimers) ]_vars

\* The scheduler was called on its own in the lobby (no handler schedules a
\* drop there): the bot has one pending drop timer, and only one.
C20_Witness ==
    /\ gamePhase = LOBBY
    /\ out = << >>
    /\ \E b \in BotIds :
          InRoster(b) /\ b \in botDropTimers /\ liveBotDropTimers[b] = 1

\* The roster/phase snapshots broadcast to every connection, of a sequence
\* of emitted messages.
BroadcastSnapshots(msgs) ==
    { << msgs[k].players, msgs[k].phase >> :
         k \in { j \in 1..Len(msgs) : msgs[j].type = "state_update" /\ msgs[j].to = "all" } }

\* C21: every snapshot a handler broadcasts is the roster and phase the
\* server has when the handler completes (or had when it began); so no
\* broadcast shows PLAYING with a resolved roster in a step that ends in
\* GAME_OVER.
C21_AtomicObservation ==
    [][ \A snap \in BroadcastSnapshots(out') :
          \/ snap = << players', gamePhase' >>
          \/ snap = << players, gamePhase >> ]_vars

\* The participants of a roster, as a set (the order left aside).
ParticipantsOf(ps) == { ps[i] : i \in 1..Len(ps) }

\* Every participant of snapshot a is also present in snapshot b.
NoRemovals(a, b) == IdsOf(a.players) \subseteq IdsOf(b.players)

EmptyDelta(d) == d.players = Undefined /\ d.phase = Undefined

\* C23: the delta computed between a snapshot and itself has no players and
\* no phase, and applying a delta without players and phase to a snapshot
\* returns that snapshot: the same participants in the same order with the
\* same field values, and the same phase.
C23_EmptyDelta ==
    /\ (pc = "computed" /\ previousState = currentState) => EmptyDelta(delta)
    /\ (pc = "applied" /\ EmptyDelta(delta)) => state = previousState

C25_ScoreSentinelRoundTrip ==
    pc = "decoded" =>
        /\ Len(state.players) = Len(currentState.players)
        /\ \A i \in 1..Len(state.players) :
              state.players[i].score = currentState.players[i].score

\* A roster with a spectator holding 0 and a competitor without a score has
\* gone to the wire form and back.
C25_Witness ==
    /\ pc = "decoded"
    /\ \E i, j \in 1..Len(currentState.players) :
          /\ currentState.players[i].isSpectator
          /\ currentState.players[i].score = Num(0)
          /\ wire[i].score = 0
          /\ ~currentState.players[j].isSpectator
          /\ currentState.players[j].score = Null
          /\ wire[j].score = -1

\* C26: a score_update sent by connection s leaves every roster entry that is
\* neither an entry of s nor a bot as it was, whichever participant the
\* event names; so no sequence of such events changes the score or the
\* finished flag of another human.
C26_OwnEventRule ==
    [][ \A s \in SocketIds, t \in AllIds \cup { Null }, pts \in Points :
          ScoreUpdate(s, t, pts) =>
              /\ Len(players') = Len(players)
              /\ \A i \in 1..Len(players) :
                    (players[i].id # s /\ ~players[i].isBot) => players'[i] = players[i] ]_vars

\* A bot has been given 50 points by a score_update (the only event that
\* gives points) while a human competitor is still without a score.
C26_Witness ==
    /\ gamePhase = PLAYING
    /\ \E i, j \in 1..Len(players) :
          /\ players[i].isBot /\ players[i].score = Num(50) /\ players[i].finished
          /\ ~players[j].isBot /\ players[j].score = Null /\ ~players[j].finished

\* The roster holds the same participants at the same places.
SameRoster ==
    /\ Len(players') = Len(players)
    /\ \A i \in 1..Len(players) : players'[i].id = players[i].id

\* C27: while the phase stays GAME_OVER no participant's score or finished
\* flag changes, whatever event or timer arrives.
C27_RoundOverFreeze ==
    [][ (gamePhase = GAME_OVER /\ gamePhase' = GAME_OVER /\ SameRoster) =>
            \A i \in 1..Len(players) :
                /\ players'[i].score = players[i].score
                /\ players'[i].finished = players[i].finished ]_vars

\* The four checks of the drop callback pass for bot b.
DropChecksPass(b) ==
    /\ IndexOfId(players, b) # 0
    /\ b \notin droppedBalls
    /\ ~players[IndexOfId(players, b)].finished
    /\ gamePhase = PLAYING

\* The messages of the last step that spawn a ball of participant id.
SpawnsOf(msgs, id) == { k \in 1..Len(msgs) : msgs[k] = SpawnBall(id) }

\* C28: a drop timer that fires with the four checks passing marks the bot
\* dropped, leaves a scoring timer pending, removes the drop timer entry and
\* emits one spawn with the bot's id, all in one step; and a bot's ball is
\* spawned only for a bot not yet marked dropped in a round being played, the
\* mark being taken away only by start_game, play_again or the return to
\* the lobby, so that a bot spawns at most once per round.
C28_SuccessfulBotDrop ==
    [][ \A b \in BotIds :
          /\ (BotDropFire(b) /\ DropChecksPass(b)) =>
                /\ b \in droppedBalls'
                /\ b \in scoreTimeoutTimers' /\ liveScoreTimers'[b] > 0
                /\ b \notin botDropTimers'
                /\ out' = << SpawnBall(b) >>
          /\ SpawnsOf(out', b) # {} =>
                /\ Cardinality(SpawnsOf(out', b)) = 1
                /\ gamePhase = PLAYING
                /\ b \notin droppedBalls /\ b \in droppedBalls'
          /\ (b \in droppedBalls /\ b \notin droppedBalls') =>
                \/ \E s \in SocketIds : StartGame(s) \/ PlayAgain(s)
                \/ gamePhase' = LOBBY ]_vars

\* A bot's drop timer has just fired with the checks passing.
C28_Witness ==
    \E b \in BotIds :
        /\ out = << SpawnBall(b) >>
        /\ gamePhase = PLAYING
        /\ b \in droppedBalls /\ b \in scoreTimeoutTimers /\ b \notin botDropTimers
        /\ InRoster(b) /\ ~ById(b).finished

\* The roster entries of participant id that are not finished.
UnfinishedOf(id) == { j \in 1..Len(players) : players[j].id = id /\ ~players[j].finished }

\* C29: when the scoring timeout of a participant fires and the participant
\* is in the roster and not finished, it gets score 0 and finished, nothing
\* else in the roster changes and the end of the round is evaluated; when
\* it is finished or gone, the roster and the phase stay as they are; in
\* both cases the timer's entry is removed.
C29_ScoringTimeoutFire ==
    [][ \A id \in AllIds :
          TimeoutFire(id) =>
            /\ id \notin scoreTimeoutTimers'
            /\ Len(players') = Len(players)
            /\ IF UnfinishedOf(id) # {}
               THEN /\ \E j \in UnfinishedOf(id) :
                          /\ players'[j] = [ players[j] EXCEPT !.score = Num(0), !.finished = TRUE ]
                          /\ \A k \in 1..Len(players) : k # j => players'[k] = players[k]
                    /\ gamePhase' = checkGameOver(players', gamePhase).phase
                    /\ out' = << StateUpdate(players', gamePhase) >>
                               \o checkGameOver(players', gamePhase).out
               ELSE /\ players' = players
                    /\ gamePhase' = gamePhase
                    /\ out' = << >> ]_vars

\* A scoring timeout has just fired for a participant that had dropped and
\* not scored: it holds 0 and is finished, its timer is gone, and the round
\* goes on for another participant.
C29_Witness ==
    /\ gamePhase = PLAYING
    /\ out = << StateUpdate(players, PLAYING) >>
    /\ \E id \in AllIds :
          /\ InRoster(id) /\ ById(id).finished /\ ById(id).score = Num(0)
          /\ ~ById(id).isSpectator
          /\ id \in droppedBalls
          /\ id \notin scoreTimeoutTimers /\ liveScoreTimers[id] = 0
    /\ \E i \in 1..Len(players) : ~players[i].finished

\* The roster entry of connection s (the one findIndex yields) may drop: it
\* exists, is no spectator, has not dropped, is not finished, and the phase
\* is PLAYING.
MayDrop(s) ==
    /\ InRoster(s)
    /\ ~ById(s).isSpectator
    /\ s \notin droppedBalls
    /\ ~ById(s).finished
    /\ gamePhase = PLAYING

\* Nothing of the session state changes in the step.
SessionUnchanged ==
    UNCHANGED << players, gamePhase, droppedBalls, botCounter, botDropTimers,
                 liveBotDropTimers, scoreTimeoutTimers, liveScoreTimers, connected >>

\* C30: a drop_ball of connection s takes effect only if s is in the
\* roster, no spectator, has not dropped, is not finished and the phase is
\* PLAYING; otherwise it changes nothing and emits nothing.  A human's ball
\* is spawned only for a sender not yet marked dropped, and the mark is taken
\* away only by start_game, play_again or a return to the lobby, so that a
\* human spawns at most once per round.
C30_HumanDropGuard ==
    [][ \A s \in SocketIds :
          /\ (DropBall(s) /\ ~MayDrop(s)) => (SessionUnchanged /\ out' = << >>)
          /\ (DropBall(s) /\ MayDrop(s)) =>
                /\ out' = << SpawnBall(s) >>
                /\ s \in droppedBalls' /\ s \in scoreTimeoutTimers'
                /\ UNCHANGED << players, gamePhase >>
          /\ SpawnsOf(out', s) # {} =>
                /\ Cardinality(SpawnsOf(out', s)) = 1
                /\ MayDrop(s) /\ s \in droppedBalls'
          /\ (s \in droppedBalls /\ s \notin droppedBalls') =>
                \/ \E t \in SocketIds : StartGame(t) \/ PlayAgain(t)
                \/ gamePhase' = LOBBY ]_vars

\* A human has just dropped its ball.
C30_Witness ==
    \E s \in SocketIds :
        /\ out = << SpawnBall(s) >>
        /\ gamePhase = PLAYING
        /\ InRoster(s) /\ ~ById(s).isSpectator /\ ~ById(s).finished
        /\ s \in droppedBalls /\ s \in scoreTimeoutTimers /\ liveScoreTimers[s] = 1

\* C31: while a round is played, every bot in the roster that is neither a
\* spectator nor finished has a drop timer pending or has dropped already,
\* bots added by add_bot during the round included.
C31_BotSchedulingCoverage ==
    gamePhase = PLAYING =>
        \A i \in 1..Len(players) :
            (players[i].isBot /\ ~players[i].isSpectator /\ ~players[i].finished) =>
                \/ liveBotDropTimers[players[i].id] > 0
                \/ players[i].id \in droppedBalls

\* The roster entries that compete.
ActivePlayers == { i \in 1..Len(players) : ~players[i].isSpectator }

\* C38: while a round is played and the roster has a competitor, some
\* competitor is not finished.
C38_NoStuckRound ==
    (gamePhase = PLAYING /\ ActivePlayers # {}) =>
        \E i \in ActivePlayers : ~players[i].finished

\* C39: when the round is over every competitor in the roster is finished
\* and has a score, those that came after the round was resolved included.
C39_RoundOverInvariant ==
    gamePhase = GAME_OVER =>
        \A i \in ActivePlayers : players[i].finished /\ players[i].score # Null

\* C40: an empty roster is in the lobby.
C40_EmptyRosterInLobby ==
    Len(players) = 0 => gamePhase = LOBBY

\* The places of the broadcasts of the session state among the messages.
BroadcastPlaces(msgs) ==
    { k \in 1..Len(msgs) : msgs[k].type = "state_update" /\ msgs[k].to = "all" }

\* The snapshot broadcast last.
LastBroadcast(msgs) ==
    LET k == CHOOSE j \in BroadcastPlaces(msgs) : \A i \in BroadcastPlaces(msgs) : i <= j
    IN << msgs[k].players, msgs[k].phase >>

\* C37: a step that changes the roster or the phase broadcasts the session
\* state, and the snapshot broadcast last is the roster and the phase the
\* step ends with.
C37_BroadcastCompleteness ==
    [][ (players' # players \/ gamePhase' # gamePhase) =>
            /\ BroadcastPlaces(out') # {}
            /\ LastBroadcast(out') = << players', gamePhase' >> ]_vars

\* C36: below the limit the name loop of add_bot ends, whatever the roster
\* holds, and the participant then appended is a bot that is no spectator,
\* has no score, is not finished and has a name that differs, ignoring
\* case, from every name the roster held.
C36_AddBotTerminates ==
    /\ <>(pc = "done")
    /\ [](pc = "done" =>
            LET bot == players[Len(players)]
            IN /\ bot.isBot /\ ~bot.isSpectator /\ bot.score = Null /\ ~bot.finished
               /\ bot.name = botName
               /\ \A i \in 1..(Len(players) - 1) :
                     toLowerCase(players[i].name) # toLowerCase(bot.name))

\* The loop has ended after the generated names and one numbered name were
\* found taken.
C36_Witness ==
    /\ pc = "done"
    /\ attempts > AttemptBudget
    /\ \E k \in 1..MaxCounter :
          /\ botCounter > k + 1
          /\ NameTaken(SubSeq(players, 1, Len(players) - 1), FallbackName(k))
          /\ players[Len(players)].name = FallbackName(botCounter - 1)

\* The names of the fields a PlayerDelta can carry besides the id.
FieldNames == { "name", "color", "score", "isCheater", "isBot", "isSpectator", "finished" }

\* Entry e carries every field of participant p.
IsFullEntryOf(e, p) == e.id = p.id /\ \A f \in FieldNames : e[f] = Def(p[f])

\* Entry e carries exactly the fields in which p differs from q.
IsDiffEntryOf(e, q, p) ==
    /\ e.id = p.id
    /\ \A f \in FieldNames : e[f] = (IF q[f] # p[f] THEN Def(p[f]) ELSE Undefined)

\* The entries of a delta (none when the players field is absent).
EntriesOf(d) == IF d.players = Undefined THEN << >> ELSE d.players[1]

\* The entries of the sequence es with the id of participant p.
EntriesFor(es, p) == { k \in 1..Len(es) : es[k].id = p.id }

\* C32: the computed delta is a full replacement (every participant of the
\* current snapshot with every field, the new phase, fullState) exactly when
\* the phases differ; otherwise it has no phase, a full entry for each
\* participant the previous snapshot lacks, for each participant of both an
\* entry with exactly the differing fields, and no entry when none differs.
C32_DeltaShape ==
    pc = "computed" =>
        LET es == EntriesOf(delta)
            prev == previousState.players
            cur == currentState.players
        IN
        /\ delta.fullState <=> previousState.phase # currentState.phase
        /\ delta.fullState =>
              /\ delta.phase = Def(currentState.phase)
              /\ delta.players # Undefined
              /\ Len(es) = Len(cur)
              /\ \A i \in 1..Len(cur) : IsFullEntryOf(es[i], cur[i])
        /\ ~delta.fullState =>
              /\ delta.phase = Undefined
              /\ \A k \in 1..Len(es) : \E i \in 1..Len(cur) : es[k].id = cur[i].id
              /\ \A i \in 1..Len(cur) :
                    IF ~MapHas(prev, cur[i].id)
                    THEN \E k \in EntriesFor(es, cur[i]) : IsFullEntryOf(es[k], cur[i])
                    ELSE \A j \in 1..Len(prev) :
                           prev[j].id = cur[i].id =>
                               IF prev[j] = cur[i]
                               THEN EntriesFor(es, cur[i]) = {}
                               ELSE \E k \in EntriesFor(es, cur[i]) :
                                        IsDiffEntryOf(es[k], prev[j], cur[i])

\* C34: when the owner's phase has not changed the delta it sends has no
\* phase, and the follower that decodes and applies what was sent has the
\* phase it had before.
C34_SparseDeltaKeepsPhase ==
    previousState.phase = currentState.phase =>
        /\ pc = "computed" => delta.phase = Undefined
        /\ pc = "applied" => state.phase = previousState.phase

\* C35: every colour the session stores for a participant comes back from
\* the conversion to the wire form and back with the same value.
C35_ColorRoundTrip ==
    pc = "decoded" =>
        /\ Len(state.players) = Len(currentState.players)
        /\ \A i \in 1..Len(state.players) :
              state.players[i].color = currentState.players[i].color

\* C33: whenever the follower has received the delta of the owner's last
\* mutation, it holds the owner's phase and the owner's participants with
\* the owner's field values.
C33_FollowerMirror ==
    previousState = OwnerState =>
        /\ state.phase = gamePhase
        /\ ParticipantsOf(state.players) = ParticipantsOf(OwnerState.players)
====
